---- MODULE Spec2Model ----
(***************************************************************************)
(* Model of TerminalHoverEditorPositioning (the polling implementation,    *)
(* src/unnamed/part_009): a position:fixed overlay element (the hover      *)
(* editor popover) is pinned to a Cytoscape node. The repository also      *)
(* holds the debounced implementation that the unit tests exercise         *)
(* (src/unnamed/part_008:210-538): it has no poller and no frame queue,    *)
(* its movement handler runs inside the camera or node event, looks for a  *)
(* user drag or resize when a burst of events starts, and repaints; and    *)
(* the variant of it that keeps a zoom-invariant base size                 *)
(* (src/src/terminal-hover-editor-positioning.ts:190-533).                 *)
(*                                                                         *)
(* Numbers. JavaScript numbers are modelled as rationals <<n, d>> (d > 0,   *)
(* lowest terms): screenToGraph divides, graphToScreen multiplies. The     *)
(* zooms, positions and sizes of the overlay specifications are dyadic and *)
(* small, so every product and quotient there is a binary floating-point   *)
(* number and IEEE-754 rounding changes nothing. SpecTransform applies the *)
(* two transforms to arbitrary floating-point inputs and rounds each       *)
(* result to the nearest number of Precision significant bits, ties to     *)
(* even, as binary64 does with 53 bits.                                    *)
(*                                                                         *)
(* DOM. An overlay element has one screen rectangle: for a position:fixed  *)
(* element getBoundingClientRect().left/top and parseFloat(style.left/top) *)
(* read the same value, and offsetWidth/offsetHeight and the content box   *)
(* read the width/height last set.                                         *)
(*                                                                         *)
(* Scheduling. Everything runs on one event loop. Camera and node events   *)
(* call their listeners synchronously; requestAnimationFrame callbacks run *)
(* together, in registration order, at the next frame, followed in the     *)
(* same frame by the ResizeObserver deliveries; setInterval ticks and      *)
(* MutationObserver callbacks are separate tasks.                          *)
(*                                                                         *)
(* Closures. Every pinHoverEditorToNode call makes one closure: its state, *)
(* its updatePending flag and its handlers. A closure lives in a slot for  *)
(* as long as the registry, a listener, an observer, a timer or a queued   *)
(* animation-frame callback refers to it; teardown does not cancel a       *)
(* queued animation-frame callback.                                        *)
(*                                                                         *)
(* History variables (budget, lastPaint, drag, lastEvent, call) record     *)
(* what happened; no handler reads them.                                   *)
(*                                                                         *)
(* Spec is the registry with two ids and two overlays; SpecGeometry is one *)
(* pinned overlay with the camera, the node and the user all moving;       *)
(* SpecSequence is the same overlay under several camera events in a row;  *)
(* SpecTransform is the two coordinate transforms on their own;            *)
(* SpecDebounced is one overlay pinned by the debounced implementation;    *)
(* SpecZoomInvariant is one overlay pinned by its zoom-invariant variant;  *)
(* SpecAnimation is the polled overlay under a camera that animations      *)
(* (viz.animate, src/src/viz/workspaces/workspace-mode.ts:576-583) step    *)
(* inside a frame, between the queued callbacks and the ResizeObserver     *)
(* deliveries; SpecMissing is the polled overlay whose node or overlay     *)
(* element disappears while it is tracked; SpecLayout is the polled        *)
(* overlay pinned before or after its first layout pass; SpecPoll is the   *)
(* polled overlay dragged by amounts around the poller's tolerance;        *)
(* SpecSequenceFrames is SpecSequence with the browser's guarantee that a  *)
(* requested animation frame comes; SpecNoOverlay is the zoom-invariant    *)
(* variant pinned while the popover may not yet be in the document.        *)
(***************************************************************************)
EXTENDS Integers, Sequences, FiniteSets, TLC

VARIABLES
    zoom,            \* cy.zoom(), a rational
    pan,             \* cy.pan(), [x, y]
    container,       \* cy.container().getBoundingClientRect(): [left, top]
    nodePos,         \* per node: graph position of its bounding box's top-left
    dom,             \* per overlay element: attached, left, top, width, height
    closures,        \* per closure slot: the variables one pin call captured
    trackingMap,     \* Map<terminalId, cleanup closure>, in insertion order
    cyListeners,     \* closures whose onGraphChange listens to cy 'viewport'
    nodeListeners,   \* <<node, closure>>: onGraphChange listens to 'position'
    resizeObservers, \* closures whose ResizeObserver observes their element
    mutationObservers, \* closures whose MutationObserver observes the body
    intervals,       \* closures whose setInterval(pollForDrag, 200) is active
    rafQueue,        \* requestAnimationFrame callbacks not yet run, in order
    roPending,       \* closures with an undelivered ResizeObserver entry
    moPending,       \* closures with undelivered MutationObserver records
    budget,          \* environment events still allowed: [camera, user]
    lastPaint,       \* history: per closure, the camera at its last repaint
    drag,            \* history: per closure, the user's drag of its overlay
    lastEvent,       \* history: per id, the last event that affected it
    call,            \* history: the registry operation the last step performed
    transform,       \* the transforms on their own: value, zoom, result, path
    notify           \* the debounced implementation: the variables of its pin call

envVars == <<zoom, pan, container, nodePos>>
progVars == <<dom, closures, trackingMap, cyListeners, nodeListeners,
              resizeObservers, mutationObservers, intervals, rafQueue,
              roPending, moPending>>
histVars == <<budget, lastPaint, drag, lastEvent, call>>
registryVars == <<closures, trackingMap, cyListeners, nodeListeners, resizeObservers,
                  mutationObservers, intervals, rafQueue, roPending, moPending,
                  lastPaint, drag, lastEvent, call>>
overlayVars == <<envVars, progVars, histVars>>
otherVars == <<transform, notify>>
vars == <<overlayVars, otherVars>>

-----------------------------------------------------------------------------
(* Bounds of the model *)

MaxCameraEvents == 1   \* camera and node events in one behaviour
MaxUserEvents == 1     \* user drags and resizes in one behaviour

\* A pan followed by a zoom, or two notifications before one frame, takes one
\* camera event more.
MaxCameraSequence == MaxCameraEvents + 1

\* A burst of notifications, the end of the burst and a notification after it.
MaxNotifications == MaxCameraSequence + 1

\* Significant bits of a floating-point number (53 in binary64).
Precision == 3

Ids == {"t1", "t2"}
Nodes == {"n1"}
Elements == {"e1", "e2"}

\* A closure outlives its teardown only while an animation-frame callback of
\* it is queued, and queueing one takes a camera or node event.
Slots == 1..(Cardinality(Ids) + MaxCameraEvents)

-----------------------------------------------------------------------------
(* Exact rational arithmetic *)

Abs(n) == IF n < 0 THEN -n ELSE n

RECURSIVE GCD(_, _)
GCD(a, b) == IF b = 0 THEN a ELSE GCD(b, a % b)

Rat(n, d) ==
    LET s == IF d < 0 THEN -1 ELSE 1
        g == GCD(Abs(n), Abs(d))
    IN  <<(s * n) \div g, (s * d) \div g>>

I(n) == <<n, 1>>
RAdd(a, b) == Rat(a[1] * b[2] + b[1] * a[2], a[2] * b[2])
RSub(a, b) == Rat(a[1] * b[2] - b[1] * a[2], a[2] * b[2])
RMul(a, b) == Rat(a[1] * b[1], a[2] * b[2])
RDiv(a, b) == Rat(a[1] * b[2], a[2] * b[1])
RAbs(a) == <<Abs(a[1]), a[2]>>
RGt(a, b) == a[1] * b[2] > b[1] * a[2]
RMax(a, b) == IF RGt(a, b) THEN a ELSE b
RMin(a, b) == IF RGt(a, b) THEN b ELSE a

\* Binary floating point: x is scaled by powers of two until its integer part
\* has Precision bits, rounded to the nearest integer, ties to even, and
\* scaled back.
RECURSIVE Pow2(_)
Pow2(k) == IF k = 0 THEN 1 ELSE 2 * Pow2(k - 1)

RECURSIVE Exponent(_, _)
Exponent(x, e) ==
    IF ~RGt(I(Pow2(Precision)), x) THEN Exponent(RDiv(x, I(2)), e + 1)
    ELSE IF RGt(I(Pow2(Precision - 1)), x) THEN Exponent(RMul(x, I(2)), e - 1)
    ELSE e

Scale(x, e) == IF e >= 0 THEN RMul(x, I(Pow2(e))) ELSE RDiv(x, I(Pow2(-e)))

RoundToNearest(x) ==
    IF x[1] = 0 THEN x
    ELSE LET e == Exponent(RAbs(x), 0)
             scaled == Scale(RAbs(x), -e)
             m == scaled[1] \div scaled[2]
             twiceRest == 2 * (scaled[1] % scaled[2])
             rounded == IF twiceRest > scaled[2] THEN m + 1
                        ELSE IF twiceRest < scaled[2] THEN m
                        ELSE IF m % 2 = 0 THEN m ELSE m + 1
             sign == IF x[1] < 0 THEN -1 ELSE 1
         IN  Scale(I(sign * rounded), e)

-----------------------------------------------------------------------------
(* Insertion-ordered Map<string, closure>: a sequence of [key, value] *)

MapHas(m, k) == \E i \in 1..Len(m) : m[i].key = k
MapGet(m, k) == LET i == CHOOSE j \in 1..Len(m) : m[j].key = k IN m[i].value
MapDelete(m, k) == SelectSeq(m, LAMBDA e : e.key # k)
MapSet(m, k, v) ==
    IF MapHas(m, k)
    THEN [i \in 1..Len(m) |-> IF m[i].key = k THEN [key |-> k, value |-> v] ELSE m[i]]
    ELSE Append(m, [key |-> k, value |-> v])
MapValues(m) == {m[i].value : i \in 1..Len(m)}

-----------------------------------------------------------------------------
(* The program state as one record, so that a handler that calls other     *)
(* handlers is the composition of their effects.                           *)

NoClosure ==
    [id |-> "-", node |-> "-", el |-> "-", offsetX |-> I(0), offsetY |-> I(0),
     width |-> I(0), height |-> I(0), updatePending |-> FALSE]

NoPaint == [zoom |-> I(0), pan |-> [x |-> 0, y |-> 0], npos |-> [x |-> 0, y |-> 0],
            touched |-> FALSE]

\* status "pending": dragged by (dx, dy) at this zoom, from this offset, and
\* not polled since; "stored": the offset the poller stored for that drag.
NoDrag == [status |-> "none", offsetX |-> I(0), offsetY |-> I(0),
           dx |-> 0, dy |-> 0, zoom |-> I(0)]

NoCall == [op |-> "none", id |-> "-", torn |-> <<>>]

NoTransform == [value |-> I(0), zoom |-> I(1), result |-> I(0), path |-> <<>>]

World ==
    [dom |-> dom, closures |-> closures, trackingMap |-> trackingMap,
     cyListeners |-> cyListeners, nodeListeners |-> nodeListeners,
     resizeObservers |-> resizeObservers, mutationObservers |-> mutationObservers,
     intervals |-> intervals, rafQueue |-> rafQueue, roPending |-> roPending,
     moPending |-> moPending, lastPaint |-> lastPaint, drag |-> drag,
     torn |-> <<>>]

InQueue(q, c) == \E i \in 1..Len(q) : q[i] = c

\* The closures something still refers to; the others are garbage.
Referenced(w) ==
    MapValues(w.trackingMap) \cup w.cyListeners \cup {nl[2] : nl \in w.nodeListeners}
      \cup w.resizeObservers \cup w.mutationObservers \cup w.intervals
      \cup {c \in Slots : InQueue(w.rafQueue, c)}

Collect(w) ==
    [w EXCEPT !.closures = [c \in Slots |-> IF c \in Referenced(w) THEN @[c] ELSE NoClosure],
              !.lastPaint = [c \in Slots |-> IF c \in Referenced(w) THEN @[c] ELSE NoPaint],
              !.drag = [c \in Slots |-> IF c \in Referenced(w) THEN @[c] ELSE NoDrag]]

-----------------------------------------------------------------------------
(* Coordinate transforms and the canvas queries *)

\* A screen-to-graph transform that multiplies.
screenToGraphMultiplying(screenValue, z) == RMul(screenValue, z)

screenToGraph(screenValue, z) == RDiv(screenValue, z)

graphToScreen(graphValue, z) == RMul(graphValue, z)

\* node.renderedBoundingBox(): container-relative, zoom and pan baked in.
renderedBoundingBox(n) ==
    [x1 |-> RAdd(RMul(I(nodePos[n].x), zoom), I(pan.x)),
     y1 |-> RAdd(RMul(I(nodePos[n].y), zoom), I(pan.y))]

\* The node's top-left corner in viewport coordinates.
nodeViewport(n) ==
    [x |-> RAdd(I(container.left), renderedBoundingBox(n).x1),
     y |-> RAdd(I(container.top), renderedBoundingBox(n).y1)]

-----------------------------------------------------------------------------
(* The handlers of one pin call (one closure) *)

\* The initial state with the container origin left out of the node's position.
InitialStateNoOrigin(d, n, e) ==
    [offsetX |-> screenToGraph(RSub(d[e].left, renderedBoundingBox(n).x1), zoom),
     offsetY |-> screenToGraph(RSub(d[e].top, renderedBoundingBox(n).y1), zoom),
     width   |-> screenToGraph(d[e].width, zoom),
     height  |-> screenToGraph(d[e].height, zoom)]

\* const state: HoverEditorState = {...}
InitialState(d, n, e) ==
    [offsetX |-> screenToGraph(RSub(d[e].left, nodeViewport(n).x), zoom),
     offsetY |-> screenToGraph(RSub(d[e].top, nodeViewport(n).y), zoom),
     width   |-> screenToGraph(d[e].width, zoom),
     height  |-> screenToGraph(d[e].height, zoom)]

\* A repaint target that leaves the container origin out.
updateTargetNoOrigin(cl) ==
    [left   |-> RAdd(renderedBoundingBox(cl.node).x1, graphToScreen(cl.offsetX, zoom)),
     top    |-> RAdd(renderedBoundingBox(cl.node).y1, graphToScreen(cl.offsetY, zoom)),
     width  |-> graphToScreen(cl.width, zoom),
     height |-> graphToScreen(cl.height, zoom)]

\* Writes the element's style; a changed size queues a ResizeObserver entry.
updateTarget(cl) ==
    LET nodeViewportX == RAdd(I(container.left), renderedBoundingBox(cl.node).x1)
        nodeViewportY == RAdd(I(container.top), renderedBoundingBox(cl.node).y1)
    IN  [left   |-> RAdd(nodeViewportX, graphToScreen(cl.offsetX, zoom)),
         top    |-> RAdd(nodeViewportY, graphToScreen(cl.offsetY, zoom)),
         width  |-> graphToScreen(cl.width, zoom),
         height |-> graphToScreen(cl.height, zoom)]

\* A repaint that first takes the overlay's actual position for its offset.
updatePositionInferring(w, c) ==
    LET cl == w.closures[c]
        old == w.dom[cl.el]
    IN  [w EXCEPT
           !.closures[c].offsetX = screenToGraph(RSub(old.left, nodeViewport(cl.node).x), zoom),
           !.closures[c].offsetY = screenToGraph(RSub(old.top, nodeViewport(cl.node).y), zoom),
           !.lastPaint[c] = [zoom |-> zoom, pan |-> pan, npos |-> nodePos[cl.node],
                             touched |-> FALSE]]

updatePosition(w, c) ==
    LET cl == w.closures[c]
        p == updateTarget(cl)
        old == w.dom[cl.el]
        resized == old.width # p.width \/ old.height # p.height
    IN  [w EXCEPT
           !.dom[cl.el] = [attached |-> old.attached, left |-> p.left, top |-> p.top,
                           width |-> p.width, height |-> p.height],
           !.roPending = IF resized
                         THEN @ \cup {o \in w.resizeObservers : w.closures[o].el = cl.el}
                         ELSE @,
           !.lastPaint[c] = [zoom |-> zoom, pan |-> pan, npos |-> nodePos[cl.node],
                             touched |-> FALSE]]

\* A notification handler that asks for a frame callback every time.
onGraphChangeUncoalesced(w, c) ==
    [w EXCEPT !.closures[c].updatePending = TRUE,
              !.rafQueue = Append(@, c)]

onGraphChange(w, c) ==
    IF ~w.closures[c].updatePending
    THEN [w EXCEPT !.closures[c].updatePending = TRUE,
                   !.rafQueue = Append(@, c)]
    ELSE w

\* A frame callback that repaints and leaves the flag set.
frameCallbackKeepsFlag(w, c) == updatePosition(w, c)

\* The requestAnimationFrame callback of onGraphChange.
frameCallback(w, c) ==
    [updatePosition(w, c) EXCEPT !.closures[c].updatePending = FALSE]

Threshold == 2

\* An expected position that leaves the container origin out.
pollExpectedNoOrigin(cl) ==
    [x |-> RAdd(renderedBoundingBox(cl.node).x1, graphToScreen(cl.offsetX, zoom)),
     y |-> RAdd(renderedBoundingBox(cl.node).y1, graphToScreen(cl.offsetY, zoom))]

pollExpected(cl) ==
    LET nodeViewportX == RAdd(I(container.left), renderedBoundingBox(cl.node).x1)
        nodeViewportY == RAdd(I(container.top), renderedBoundingBox(cl.node).y1)
    IN  [x |-> RAdd(nodeViewportX, graphToScreen(cl.offsetX, zoom)),
         y |-> RAdd(nodeViewportY, graphToScreen(cl.offsetY, zoom))]

\* A poller that stores the delta of an axis only when that axis is over the
\* tolerance.
pollForDragPerAxis(w, c) ==
    LET cl == w.closures[c]
        dx == RSub(w.dom[cl.el].left, pollExpected(cl).x)
        dy == RSub(w.dom[cl.el].top, pollExpected(cl).y)
    IN  [w EXCEPT !.closures[c].offsetX =
                      IF RGt(RAbs(dx), I(Threshold)) THEN RAdd(@, screenToGraph(dx, zoom)) ELSE @,
                  !.closures[c].offsetY =
                      IF RGt(RAbs(dy), I(Threshold)) THEN RAdd(@, screenToGraph(dy, zoom)) ELSE @]

\* A poller that adds the pixel difference to the offset as it is.
pollForDragUnscaled(w, c) ==
    LET cl == w.closures[c]
        dx == RSub(w.dom[cl.el].left, pollExpected(cl).x)
        dy == RSub(w.dom[cl.el].top, pollExpected(cl).y)
    IN  IF RGt(RAbs(dx), I(Threshold)) \/ RGt(RAbs(dy), I(Threshold))
        THEN [w EXCEPT !.closures[c].offsetX = RAdd(@, dx),
                       !.closures[c].offsetY = RAdd(@, dy)]
        ELSE w

\* A poller that expects the overlay where the zoom of its last correction
\* put it.
pollForDragStaleZoom(w, c) ==
    LET cl == w.closures[c]
        z == IF w.drag[c].status = "stored" THEN w.drag[c].zoom ELSE zoom
        dx == RSub(w.dom[cl.el].left,
                   RAdd(nodeViewport(cl.node).x, graphToScreen(cl.offsetX, z)))
        dy == RSub(w.dom[cl.el].top,
                   RAdd(nodeViewport(cl.node).y, graphToScreen(cl.offsetY, z)))
    IN  IF RGt(RAbs(dx), I(Threshold)) \/ RGt(RAbs(dy), I(Threshold))
        THEN [w EXCEPT !.closures[c].offsetX = RAdd(@, screenToGraph(dx, z)),
                       !.closures[c].offsetY = RAdd(@, screenToGraph(dy, z))]
        ELSE w

pollForDrag(w, c) ==
    LET cl == w.closures[c]
        dx == RSub(w.dom[cl.el].left, pollExpected(cl).x)
        dy == RSub(w.dom[cl.el].top, pollExpected(cl).y)
    IN  IF RGt(RAbs(dx), I(Threshold)) \/ RGt(RAbs(dy), I(Threshold))
        THEN [w EXCEPT !.closures[c].offsetX = RAdd(@, screenToGraph(dx, zoom)),
                       !.closures[c].offsetY = RAdd(@, screenToGraph(dy, zoom))]
        ELSE w

\* A size-change callback that stores the reported pixels as they are.
resizeObserverCallbackPixels(w, c) ==
    LET cl == w.closures[c]
    IN  [w EXCEPT !.closures[c].width = w.dom[cl.el].width,
                  !.closures[c].height = w.dom[cl.el].height,
                  !.roPending = @ \ {c}]

resizeObserverCallback(w, c) ==
    LET cl == w.closures[c]
    IN  [w EXCEPT !.closures[c].width = screenToGraph(w.dom[cl.el].width, zoom),
                  !.closures[c].height = screenToGraph(w.dom[cl.el].height, zoom),
                  !.roPending = @ \ {c}]

\* The same callback when cy.zoom() returns z at delivery.
resizeObserverCallbackAt(w, c, z) ==
    LET cl == w.closures[c]
    IN  [w EXCEPT !.closures[c].width = screenToGraph(w.dom[cl.el].width, z),
                  !.closures[c].height = screenToGraph(w.dom[cl.el].height, z),
                  !.roPending = @ \ {c}]

\* A teardown that releases the subscriptions and leaves the registry entry.
closureCleanupKeepsEntry(w, c) ==
    [w EXCEPT !.cyListeners = @ \ {c},
              !.nodeListeners = @ \ {<<w.closures[c].node, c>>},
              !.resizeObservers = @ \ {c},
              !.roPending = @ \ {c},
              !.mutationObservers = @ \ {c},
              !.moPending = @ \ {c},
              !.intervals = @ \ {c},
              !.torn = Append(@, w.closures[c].id)]

\* A teardown that leaves the poll timer running.
closureCleanupLeavesTimer(w, c) ==
    [w EXCEPT !.cyListeners = @ \ {c},
              !.nodeListeners = @ \ {<<w.closures[c].node, c>>},
              !.resizeObservers = @ \ {c},
              !.roPending = @ \ {c},
              !.mutationObservers = @ \ {c},
              !.moPending = @ \ {c},
              !.trackingMap = MapDelete(@, w.closures[c].id),
              !.torn = Append(@, w.closures[c].id)]

\* A teardown that leaves the removal watcher connected.
closureCleanupLeavesWatcher(w, c) ==
    [w EXCEPT !.cyListeners = @ \ {c},
              !.nodeListeners = @ \ {<<w.closures[c].node, c>>},
              !.resizeObservers = @ \ {c},
              !.roPending = @ \ {c},
              !.intervals = @ \ {c},
              !.trackingMap = MapDelete(@, w.closures[c].id),
              !.torn = Append(@, w.closures[c].id)]

\* A teardown that calls off() without its handlers: every listener of the
\* camera and of the node is removed, not only the closure's own.
closureCleanupOffAll(w, c) ==
    [w EXCEPT !.cyListeners = {},
              !.nodeListeners = {p \in @ : p[1] # w.closures[c].node},
              !.resizeObservers = @ \ {c},
              !.roPending = @ \ {c},
              !.mutationObservers = @ \ {c},
              !.moPending = @ \ {c},
              !.intervals = @ \ {c},
              !.trackingMap = MapDelete(@, w.closures[c].id),
              !.torn = Append(@, w.closures[c].id)]

\* const cleanup = () => {...}: the closure's own teardown.
closureCleanup(w, c) ==
    [w EXCEPT !.cyListeners = @ \ {c},
              !.nodeListeners = @ \ {<<w.closures[c].node, c>>},
              !.resizeObservers = @ \ {c},
              !.roPending = @ \ {c},
              !.mutationObservers = @ \ {c},
              !.moPending = @ \ {c},
              !.intervals = @ \ {c},
              !.trackingMap = MapDelete(@, w.closures[c].id),
              !.torn = Append(@, w.closures[c].id)]

\* A removal watcher that never looks whether its overlay is still attached.
mutationObserverIgnoresRemoval(w, c) ==
    [w EXCEPT !.moPending = @ \ {c}]

\* A removal watcher that tears its entry down on every change of the tree.
mutationObserverAlwaysCleans(w, c) ==
    closureCleanup([w EXCEPT !.moPending = @ \ {c}], c)

mutationObserverCallback(w, c) ==
    LET w1 == [w EXCEPT !.moPending = @ \ {c}]
    IN  IF ~w.dom[w.closures[c].el].attached THEN closureCleanup(w1, c) ELSE w1

-----------------------------------------------------------------------------
(* The methods of TerminalHoverEditorPositioning *)

hasTracking(id) == MapHas(trackingMap, id)

\* A cleanup that takes the oldest entry of the registry, whatever the id.
cleanupOldest(w, id) ==
    IF w.trackingMap # <<>>
    THEN closureCleanup(w, w.trackingMap[1].value)
    ELSE w

cleanup(w, id) ==
    IF MapHas(w.trackingMap, id)
    THEN closureCleanup(w, MapGet(w.trackingMap, id))
    ELSE w

\* An iteration that loses its place when the entry it is on is deleted:
\* the entry after a torn-down one is passed over.
RECURSIVE forEachSkipping(_, _, _)
forEachSkipping(w, entries, i) ==
    IF i > Len(entries) THEN w
    ELSE forEachSkipping(closureCleanup(w, entries[i].value), entries, i + 2)

\* Map.prototype.forEach: the entries in insertion order, skipping those
\* deleted before their turn.
RECURSIVE forEachCleanup(_, _, _)
forEachCleanup(w, entries, i) ==
    IF i > Len(entries) THEN w
    ELSE IF MapHas(w.trackingMap, entries[i].key)
              /\ MapGet(w.trackingMap, entries[i].key) = entries[i].value
         THEN forEachCleanup(closureCleanup(w, entries[i].value), entries, i + 1)
         ELSE forEachCleanup(w, entries, i + 1)

cleanupAll(w) == forEachCleanup(w, w.trackingMap, 1)

FreeSlots(w) == Slots \ Referenced(w)

\* The body of pinHoverEditorToNode after the re-pin check: a new closure in
\* the lowest free slot, its state, its subscriptions and its first paint.
register(w1, id, n, e) ==
    LET c  == CHOOSE s \in FreeSlots(w1) : \A t \in FreeSlots(w1) : s <= t
        st == InitialState(w1.dom, n, e)
        w2 == [w1 EXCEPT
                 !.closures[c] = [id |-> id, node |-> n, el |-> e,
                                  offsetX |-> st.offsetX, offsetY |-> st.offsetY,
                                  width |-> st.width, height |-> st.height,
                                  updatePending |-> FALSE],
                 !.trackingMap = MapSet(@, id, c),
                 !.resizeObservers = @ \cup {c},
                 !.roPending = @ \cup {c},
                 !.mutationObservers = @ \cup {c}]
        w3 == updatePosition(w2, c)
    IN  [w3 EXCEPT !.cyListeners = @ \cup {c},
                   !.nodeListeners = @ \cup {<<n, c>>},
                   !.intervals = @ \cup {c}]

\* if (this.trackingMap.has(terminalId)) this.cleanup(terminalId)
repinCleanup(w, id) ==
    Collect(IF MapHas(w.trackingMap, id) THEN cleanup(w, id) ELSE w)

\* A pin that does not look for a previous entry of the id.
pinWithoutTeardown(w, id, n, e) == register(Collect(w), id, n, e)

pinHoverEditorToNode(w, id, n, e) == register(repinCleanup(w, id), id, n, e)

-----------------------------------------------------------------------------
(* The debounced implementation: the variables and handlers of its one pin  *)
(* call. Its handlers run inside the event, so they are given the camera    *)
(* the event has just set; w is [rect, s], the overlay's rectangle and the  *)
(* variables of the pin call.                                               *)

NoResize == [status |-> "none", predictedWidth |-> I(0), predictedHeight |-> I(0),
             userWidth |-> I(0), userHeight |-> I(0), zoom |-> I(0)]

\* last and resize are history: the kind of the last step, and the user's
\* resize ("pending" until a notification has looked for it, then "detected"
\* or forgotten) with the size the overlay had been given before it.
NoNotify ==
    [tracked |-> FALSE, listening |-> FALSE, observer |-> FALSE, timer |-> FALSE,
     isGraphMoving |-> FALSE, lastZoom |-> I(0),
     userOffsetX |-> I(0), userOffsetY |-> I(0),
     baseWidth |-> I(0), baseHeight |-> I(0),
     resizeScaleFactorWidth |-> I(1), resizeScaleFactorHeight |-> I(1),
     last |-> "none", resize |-> NoResize]

Camera(z, p, q) == [zoom |-> z, pan |-> p, npos |-> q]

\* The node's bounding box in graph units.
NodeSize == [width |-> 100, height |-> 100]

\* node.renderedBoundingBox() under camera cam.
renderedBoundingBoxAt(cam) ==
    [x1 |-> RAdd(RMul(I(cam.npos.x), cam.zoom), I(cam.pan.x)),
     y1 |-> RAdd(RMul(I(cam.npos.y), cam.zoom), I(cam.pan.y)),
     x2 |-> RAdd(RMul(I(cam.npos.x + NodeSize.width), cam.zoom), I(cam.pan.x)),
     y2 |-> RAdd(RMul(I(cam.npos.y + NodeSize.height), cam.zoom), I(cam.pan.y))]

renderedCenter(cam) ==
    LET boundingBox == renderedBoundingBoxAt(cam)
    IN  [x |-> RDiv(RAdd(boundingBox.x1, boundingBox.x2), I(2)),
         y |-> RDiv(RAdd(boundingBox.y1, boundingBox.y2), I(2))]

BaseOffset == [x |-> 300, y |-> -50]

expectedBase(cam) ==
    [x |-> RAdd(renderedCenter(cam).x, RMul(I(BaseOffset.x), cam.zoom)),
     y |-> RAdd(renderedCenter(cam).y, RMul(I(BaseOffset.y), cam.zoom))]

getDefaultPosition(s, cam) ==
    [x |-> RAdd(RAdd(renderedCenter(cam).x, RMul(I(BaseOffset.x), cam.zoom)),
                RMul(s.userOffsetX, cam.zoom)),
     y |-> RAdd(RAdd(renderedCenter(cam).y, RMul(I(BaseOffset.y), cam.zoom)),
                RMul(s.userOffsetY, cam.zoom))]

MinWidth == 50
MaxWidth == 800
MinHeight == 38
MaxHeight == 1200

finalWidth(s, cam) ==
    RMax(I(MinWidth),
         RMin(I(MaxWidth), RMul(RMul(s.baseWidth, cam.zoom), s.resizeScaleFactorWidth)))

finalHeight(s, cam) ==
    RMax(I(MinHeight),
         RMin(I(MaxHeight), RMul(RMul(s.baseHeight, cam.zoom), s.resizeScaleFactorHeight)))

updatePositionDebounced(w, cam) ==
    [w EXCEPT !.rect.left = getDefaultPosition(w.s, cam).x,
              !.rect.top = getDefaultPosition(w.s, cam).y,
              !.rect.width = finalWidth(w.s, cam),
              !.rect.height = finalHeight(w.s, cam)]

\* "Check for user drag BEFORE we start moving"
detectDrag(w, cam) ==
    LET expectedX == RAdd(expectedBase(cam).x, RMul(w.s.userOffsetX, cam.zoom))
        expectedY == RAdd(expectedBase(cam).y, RMul(w.s.userOffsetY, cam.zoom))
        diffX == RAbs(RSub(w.rect.left, expectedX))
        diffY == RAbs(RSub(w.rect.top, expectedY))
    IN  IF RGt(diffX, I(Threshold)) \/ RGt(diffY, I(Threshold))
        THEN [w EXCEPT
                !.s.userOffsetX = RDiv(RSub(w.rect.left, expectedBase(cam).x), cam.zoom),
                !.s.userOffsetY = RDiv(RSub(w.rect.top, expectedBase(cam).y), cam.zoom)]
        ELSE w

SizeThreshold == 5

\* "Check for manual resize BEFORE we update"
detectResize(w, cam) ==
    LET widthDiff == RAbs(RSub(w.rect.width, finalWidth(w.s, cam)))
        heightDiff == RAbs(RSub(w.rect.height, finalHeight(w.s, cam)))
    IN  IF RGt(widthDiff, I(SizeThreshold)) \/ RGt(heightDiff, I(SizeThreshold))
        THEN [w EXCEPT
                !.s.resizeScaleFactorWidth =
                    RDiv(w.rect.width, RMul(w.s.baseWidth, cam.zoom)),
                !.s.resizeScaleFactorHeight =
                    RDiv(w.rect.height, RMul(w.s.baseHeight, cam.zoom))]
        ELSE w

ZoomTolerance == <<1, 1000>>

onGraphMovement(w, cam) ==
    LET zoomChanged == RGt(RAbs(RSub(cam.zoom, w.s.lastZoom)), ZoomTolerance)
        w1 == IF w.s.isGraphMoving THEN w
              ELSE IF zoomChanged THEN [w EXCEPT !.s.lastZoom = cam.zoom]
              ELSE detectResize(detectDrag(w, cam), cam)
        w2 == [w1 EXCEPT !.s.isGraphMoving = TRUE, !.s.timer = TRUE]
    IN  updatePositionDebounced(w2, cam)

\* The callback of movementTimeout.
movementTimeoutCallback(w) ==
    [w EXCEPT !.s.isGraphMoving = FALSE, !.s.timer = FALSE]

\* The debounced pinHoverEditorToNode, after its wait: without a popover in
\* the document it returns; otherwise the variables, the first paint, the
\* listeners, the registry entry and the removal observer.
pinHoverEditorToNodeDebounced(w, cam) ==
    IF ~w.rect.attached THEN w
    ELSE LET s0 == [w.s EXCEPT
                      !.userOffsetX = I(0), !.userOffsetY = I(0),
                      !.isGraphMoving = FALSE, !.timer = FALSE,
                      !.lastZoom = cam.zoom,
                      !.baseWidth = RDiv(w.rect.width, cam.zoom),
                      !.baseHeight = RDiv(w.rect.height, cam.zoom),
                      !.resizeScaleFactorWidth = I(1),
                      !.resizeScaleFactorHeight = I(1)]
             w1 == updatePositionDebounced([w EXCEPT !.s = s0], cam)
         IN  [w1 EXCEPT !.s.listening = TRUE, !.s.tracked = TRUE, !.s.observer = TRUE]

\* An event of the camera or the node calls the handler once for each event
\* name of 'position', 'pan', 'zoom' it carries.
RECURSIVE emitDebounced(_, _, _)
emitDebounced(w, cam, times) ==
    IF times = 0 \/ ~w.s.listening THEN w
    ELSE emitDebounced(onGraphMovement(w, cam), cam, times - 1)

\* History: the user's resize is pending; a notification detects it when it
\* changes the resize factors, and forgets it when it does not.
UserResized(w, width, height, z) ==
    [w EXCEPT !.s.resize =
        [status |-> "pending",
         predictedWidth |-> IF @.status = "pending" THEN @.predictedWidth ELSE w.rect.width,
         predictedHeight |-> IF @.status = "pending" THEN @.predictedHeight ELSE w.rect.height,
         userWidth |-> width, userHeight |-> height, zoom |-> z]]

Notified(w0, w1, cam) ==
    LET changed == <<w1.s.resizeScaleFactorWidth, w1.s.resizeScaleFactorHeight>>
                      # <<w0.s.resizeScaleFactorWidth, w0.s.resizeScaleFactorHeight>>
    IN  [w1 EXCEPT !.s.last = "notification",
                   !.s.resize = IF @.status # "pending" THEN @
                                ELSE IF changed
                                     THEN [@ EXCEPT !.status = "detected", !.zoom = cam.zoom]
                                     ELSE NoResize]

-----------------------------------------------------------------------------
(* The zoom-invariant variant of the debounced implementation               *)
(* (src/src/terminal-hover-editor-positioning.ts:190-533): the overlay is   *)
(* anchored at the top-left corner of the node's box, the user's size is    *)
(* kept as a zoom-invariant base size, the first notifications after the    *)
(* pin only repaint, and the handler listens to 'position' and 'pan' only.  *)

\* History besides last and resize: pinBase is the base size the pin computed,
\* written the sizes the repaints have written since the user last resized,
\* as <<zoom, width, height>>, the first one of every zoom.
NoNotifyZoomInvariant ==
    [tracked |-> FALSE, listening |-> FALSE, observer |-> FALSE, timer |-> FALSE,
     isGraphMoving |-> FALSE, lastZoom |-> I(0), frameCount |-> 0,
     userOffsetXZoomInvariant |-> I(0), userOffsetYZoomInvariant |-> I(0),
     baseWidthZoomInvariant |-> I(0), baseHeightZoomInvariant |-> I(0),
     last |-> "none", resize |-> NoResize, pinBase |-> <<>>, written |-> <<>>]

BaseOffsetZoomInvariant == [x |-> 0, y |-> 0]

getDefaultPositionZoomInvariant(s, cam) ==
    LET boundingBox == renderedBoundingBoxAt(cam)
    IN  [x |-> RAdd(RAdd(boundingBox.x1, RMul(I(BaseOffsetZoomInvariant.x), cam.zoom)),
                    RMul(s.userOffsetXZoomInvariant, cam.zoom)),
         y |-> RAdd(RAdd(boundingBox.y1, RMul(I(BaseOffsetZoomInvariant.y), cam.zoom)),
                    RMul(s.userOffsetYZoomInvariant, cam.zoom))]

scaledWidth(s, cam) ==
    RMax(I(MinWidth), RMin(I(MaxWidth), RMul(s.baseWidthZoomInvariant, cam.zoom)))

scaledHeight(s, cam) ==
    RMax(I(MinHeight), RMin(I(MaxHeight), RMul(s.baseHeightZoomInvariant, cam.zoom)))

updatePositionZoomInvariant(w, cam) ==
    [w EXCEPT !.rect.left = getDefaultPositionZoomInvariant(w.s, cam).x,
              !.rect.top = getDefaultPositionZoomInvariant(w.s, cam).y,
              !.rect.width = scaledWidth(w.s, cam),
              !.rect.height = scaledHeight(w.s, cam)]

\* "Check for user drag BEFORE we start moving"
detectDragZoomInvariant(w, cam, zoomChanged) ==
    LET boundingBox == renderedBoundingBoxAt(cam)
        expectedX == RAdd(boundingBox.x1, RMul(w.s.userOffsetXZoomInvariant, cam.zoom))
        expectedY == RAdd(boundingBox.y1, RMul(w.s.userOffsetYZoomInvariant, cam.zoom))
        diffX == RAbs(RSub(w.rect.left, expectedX))
        diffY == RAbs(RSub(w.rect.top, expectedY))
    IN  IF (RGt(diffX, I(Threshold)) \/ RGt(diffY, I(Threshold))) /\ ~zoomChanged
        THEN [w EXCEPT
                !.s.userOffsetXZoomInvariant =
                    RDiv(RSub(w.rect.left, boundingBox.x1), cam.zoom),
                !.s.userOffsetYZoomInvariant =
                    RDiv(RSub(w.rect.top, boundingBox.y1), cam.zoom)]
        ELSE w

\* "Check for manual resize BEFORE we update"
detectResizeZoomInvariant(w, cam, zoomChanged) ==
    LET widthDiff == RAbs(RSub(w.rect.width, scaledWidth(w.s, cam)))
        heightDiff == RAbs(RSub(w.rect.height, scaledHeight(w.s, cam)))
    IN  IF (RGt(widthDiff, I(SizeThreshold)) \/ RGt(heightDiff, I(SizeThreshold)))
           /\ ~zoomChanged
        THEN [w EXCEPT
                !.s.baseWidthZoomInvariant = RDiv(w.rect.width, cam.zoom),
                !.s.baseHeightZoomInvariant = RDiv(w.rect.height, cam.zoom)]
        ELSE w

\* The number of the first notification that looks for a drag or a resize.
InitializationFrames == 5

\* A handler that looks for a drag and a resize on every call, moving or not.
onGraphMovementZoomInvariantAlwaysDetecting(w, cam) ==
    LET counted == [w EXCEPT !.s.frameCount =
                        IF @ < InitializationFrames THEN @ + 1 ELSE @]
        zoomChanged == RGt(RAbs(RSub(cam.zoom, w.s.lastZoom)), ZoomTolerance)
        w0 == [counted EXCEPT !.s.lastZoom = cam.zoom]
        w1 == detectResizeZoomInvariant(
                  detectDragZoomInvariant(w0, cam, zoomChanged), cam, zoomChanged)
        w2 == [w1 EXCEPT !.s.isGraphMoving = TRUE, !.s.timer = TRUE]
    IN  IF counted.s.frameCount < InitializationFrames
        THEN updatePositionZoomInvariant(counted, cam)
        ELSE updatePositionZoomInvariant(w2, cam)

\* A handler without the initialisation skip: it looks for a drag and a
\* resize from its first call on.
onGraphMovementZoomInvariantNoSkip(w, cam) ==
    LET counted == [w EXCEPT !.s.frameCount =
                        IF @ < InitializationFrames THEN @ + 1 ELSE @]
        zoomChanged == RGt(RAbs(RSub(cam.zoom, w.s.lastZoom)), ZoomTolerance)
        w0 == [counted EXCEPT !.s.lastZoom = cam.zoom]
        w1 == IF w0.s.isGraphMoving THEN w0
              ELSE detectResizeZoomInvariant(
                       detectDragZoomInvariant(w0, cam, zoomChanged), cam, zoomChanged)
        w2 == [w1 EXCEPT !.s.isGraphMoving = TRUE, !.s.timer = TRUE]
    IN  updatePositionZoomInvariant(w2, cam)

\* frameCount is only compared with InitializationFrames: it stops there.
onGraphMovementZoomInvariant(w, cam) ==
    LET counted == [w EXCEPT !.s.frameCount =
                        IF @ < InitializationFrames THEN @ + 1 ELSE @]
        zoomChanged == RGt(RAbs(RSub(cam.zoom, w.s.lastZoom)), ZoomTolerance)
        w0 == [counted EXCEPT !.s.lastZoom = cam.zoom]
        w1 == IF w0.s.isGraphMoving THEN w0
              ELSE detectResizeZoomInvariant(
                       detectDragZoomInvariant(w0, cam, zoomChanged), cam, zoomChanged)
        w2 == [w1 EXCEPT !.s.isGraphMoving = TRUE, !.s.timer = TRUE]
    IN  IF counted.s.frameCount < InitializationFrames
        THEN updatePositionZoomInvariant(counted, cam)
        ELSE updatePositionZoomInvariant(w2, cam)

\* A pin that does not look whether a popover was found.
pinHoverEditorToNodeZoomInvariantUnchecked(w, cam) ==
    LET s0 == [w.s EXCEPT
                 !.userOffsetXZoomInvariant = I(0),
                 !.userOffsetYZoomInvariant = I(0),
                 !.isGraphMoving = FALSE, !.timer = FALSE,
                 !.lastZoom = cam.zoom, !.frameCount = 0,
                 !.baseWidthZoomInvariant = RDiv(w.rect.width, cam.zoom),
                 !.baseHeightZoomInvariant = RDiv(w.rect.height, cam.zoom)]
        w1 == updatePositionZoomInvariant([w EXCEPT !.s = s0], cam)
    IN  [w1 EXCEPT !.s.listening = TRUE, !.s.tracked = TRUE, !.s.observer = TRUE]

pinHoverEditorToNodeZoomInvariant(w, cam) ==
    IF ~w.rect.attached THEN w
    ELSE LET s0 == [w.s EXCEPT
                      !.userOffsetXZoomInvariant = I(0),
                      !.userOffsetYZoomInvariant = I(0),
                      !.isGraphMoving = FALSE, !.timer = FALSE,
                      !.lastZoom = cam.zoom, !.frameCount = 0,
                      !.baseWidthZoomInvariant = RDiv(w.rect.width, cam.zoom),
                      !.baseHeightZoomInvariant = RDiv(w.rect.height, cam.zoom)]
             w1 == updatePositionZoomInvariant([w EXCEPT !.s = s0], cam)
         IN  [w1 EXCEPT !.s.listening = TRUE, !.s.tracked = TRUE, !.s.observer = TRUE]

\* An event that carries 'position' or 'pan' calls the handler once.
emitZoomInvariant(w, cam) ==
    IF w.s.listening THEN onGraphMovementZoomInvariant(w, cam) ELSE w

\* History: a repaint under camera cam has written the overlay's size.
Written(w, cam) ==
    IF \E i \in 1..Len(w.s.written) : w.s.written[i][1] = cam.zoom THEN w
    ELSE [w EXCEPT !.s.written = Append(@, <<cam.zoom, w.rect.width, w.rect.height>>)]

\* History: a notification detects the pending resize when it changes the
\* base size, and forgets it when it does not.
NotifiedZoomInvariant(w0, w1, cam) ==
    LET changed == <<w1.s.baseWidthZoomInvariant, w1.s.baseHeightZoomInvariant>>
                      # <<w0.s.baseWidthZoomInvariant, w0.s.baseHeightZoomInvariant>>
    IN  [(IF w0.s.listening THEN Written(w1, cam) ELSE w1) EXCEPT
                   !.s.last = "notification",
                   !.s.resize = IF @.status # "pending" THEN @
                                ELSE IF changed
                                     THEN [@ EXCEPT !.status = "detected", !.zoom = cam.zoom]
                                     ELSE NoResize]

-----------------------------------------------------------------------------
(* The event loop *)

\* An event calls its listeners one after the other.
RECURSIVE emit(_, _, _)
emit(w, listeners, c) ==
    IF c \notin Slots THEN w
    ELSE emit(IF c \in listeners THEN onGraphChange(w, c) ELSE w, listeners, c + 1)

\* One frame: the queued animation-frame callbacks in order ...
RECURSIVE runFrameCallbacks(_, _, _)
runFrameCallbacks(w, q, i) ==
    IF i > Len(q) THEN w ELSE runFrameCallbacks(frameCallback(w, q[i]), q, i + 1)

\* ... then the ResizeObserver entries that layout produced.
RECURSIVE deliverResizes(_, _)
deliverResizes(w, c) ==
    IF c \notin Slots THEN w
    ELSE deliverResizes(IF c \in w.roPending THEN resizeObserverCallback(w, c) ELSE w, c + 1)

frame(w) ==
    deliverResizes([runFrameCallbacks(w, w.rafQueue, 1) EXCEPT !.rafQueue = <<>>], 1)

RECURSIVE deliverResizesAt(_, _, _)
deliverResizesAt(w, c, z) ==
    IF c \notin Slots THEN w
    ELSE deliverResizesAt(IF c \in w.roPending THEN resizeObserverCallbackAt(w, c, z) ELSE w,
                          c + 1, z)

\* One frame of a camera animation (cy.animate): the queued animation-frame
\* callbacks run, then Cytoscape's own frame callback steps the camera to
\* zoom z and emits 'viewport', then layout delivers the ResizeObserver
\* entries, whose callbacks read the stepped zoom.
animationFrame(w, z) ==
    LET painted == [runFrameCallbacks(w, w.rafQueue, 1) EXCEPT !.rafQueue = <<>>]
    IN  deliverResizesAt(emit(painted, painted.cyListeners, 1), 1, z)

\* The user touched element e: noted for every closure that paints it.
Touch(w, e) ==
    [w EXCEPT !.lastPaint = [c \in Slots |->
        IF w.closures[c].el = e THEN [@[c] EXCEPT !.touched = TRUE] ELSE @[c]]]

\* The user dragged element e by d: noted for every closure that polls it.
Dragged(w, e, d) ==
    [w EXCEPT !.drag = [c \in Slots |->
        IF c \in w.intervals /\ w.closures[c].el = e
        THEN IF @[c].status = "pending"
             THEN [@[c] EXCEPT !.dx = @ + d.x, !.dy = @ + d.y, !.zoom = zoom]
             ELSE [status |-> "pending", offsetX |-> w.closures[c].offsetX,
                   offsetY |-> w.closures[c].offsetY, dx |-> d.x, dy |-> d.y,
                   zoom |-> zoom]
        ELSE @[c]]]

\* Closure c polled, taking w0 to w1: a pending drag is now stored or missed.
Polled(w0, w1, c) ==
    IF w0.drag[c].status # "pending" THEN w1
    ELSE IF <<w1.closures[c].offsetX, w1.closures[c].offsetY>>
              # <<w0.closures[c].offsetX, w0.closures[c].offsetY>>
         THEN [w1 EXCEPT !.drag[c] = [@ EXCEPT !.status = "stored",
                                                !.offsetX = w1.closures[c].offsetX,
                                                !.offsetY = w1.closures[c].offsetY,
                                                !.zoom = zoom]]
         ELSE [w1 EXCEPT !.drag[c] = NoDrag]

Commit(w0) ==
    LET w == Collect(w0)
    IN  /\ dom' = w.dom
        /\ closures' = w.closures
        /\ trackingMap' = w.trackingMap
        /\ cyListeners' = w.cyListeners
        /\ nodeListeners' = w.nodeListeners
        /\ resizeObservers' = w.resizeObservers
        /\ mutationObservers' = w.mutationObservers
        /\ intervals' = w.intervals
        /\ rafQueue' = w.rafQueue
        /\ roPending' = w.roPending
        /\ moPending' = w.moPending
        /\ lastPaint' = w.lastPaint
        /\ drag' = w.drag

-----------------------------------------------------------------------------
(* Input values *)

Origin == [x |-> 0, y |-> 0]
NodeStart == [x |-> 500, y |-> 400]
StartRect == [attached |-> TRUE, left |-> I(800), top |-> I(350),
              width |-> I(400), height |-> I(300)]

\* The registry: two ids, two overlays, a camera that pans by less than the
\* poller notices, a node that stays where it is and a user who leaves the
\* overlays alone.
Pairs == {<<"t1", "e1">>, <<"t1", "e2">>, <<"t2", "e2">>}
Zooms == {<<1, 1>>}
Pans == {Origin, [x |-> 1, y |-> -2]}

\* The geometry: one overlay, the camera, the node and the user all moving.
GeometryZooms == {<<1, 2>>, <<1, 1>>}
GeometryPans == {Origin, [x |-> 100, y |-> 50]}
GeometryContainers == {[left |-> 0, top |-> 0], [left |-> 40, top |-> 10]}
GeometryNodePositions == {NodeStart, [x |-> 503, y |-> 400]}
DragDeltas == {[x |-> 100, y |-> 50], [x |-> 2, y |-> -1]}
UserSizes == {[width |-> 600, height |-> 450]}
SequenceDrag == [x |-> 100, y |-> 50]

\* Drags of more than the poller's tolerance on both axes, on one axis, on none.
PollDrags == {[x |-> 100, y |-> 50], [x |-> 3, y |-> 1], [x |-> 2, y |-> -2]}

\* Scalars and zooms of at most three significant bits.
TransformValues == {<<0, 1>>, <<1, 1>>, <<3, 1>>, <<5, 1>>, <<7, 1>>, <<-6, 1>>,
                    <<5, 2>>, <<96, 1>>}
TransformZooms == {<<1, 2>>, <<1, 1>>, <<3, 1>>, <<5, 1>>, <<7, 4>>, <<3, 8>>}

\* The debounced implementation: the node of the unit tests, whose centre
\* renders at (500, 400), their zooms and their resize.
DebouncedNodeStart == [x |-> 450, y |-> 350]
DebouncedNodePositions == {DebouncedNodeStart, [x |-> 453, y |-> 350]}
DebouncedZooms == {<<1, 2>>, <<1, 1>>, <<2, 1>>}
DebouncedPans == {Origin, [x |-> 1, y |-> -2], [x |-> 100, y |-> 50]}
DebouncedSizes == {[width |-> 600, height |-> 450]}

Idle ==
    /\ pan = Origin
    /\ closures = [c \in Slots |-> NoClosure]
    /\ trackingMap = <<>>
    /\ cyListeners = {}
    /\ nodeListeners = {}
    /\ resizeObservers = {}
    /\ mutationObservers = {}
    /\ intervals = {}
    /\ rafQueue = <<>>
    /\ roPending = {}
    /\ moPending = {}
    /\ lastPaint = [c \in Slots |-> NoPaint]
    /\ drag = [c \in Slots |-> NoDrag]
    /\ lastEvent = [id \in Ids |-> "none"]
    /\ call = NoCall

Init ==
    /\ zoom = <<1, 1>>
    /\ container = [left |-> 40, top |-> 10]
    /\ dom = [e \in Elements |-> StartRect]
    /\ budget = [camera |-> MaxCameraEvents, user |-> MaxUserEvents]
    /\ transform = NoTransform
    /\ notify = NoNotify
    /\ nodePos = [n \in Nodes |-> NodeStart]
    /\ Idle

\* The second overlay does not exist.
InitGeometry ==
    /\ zoom \in GeometryZooms
    /\ container \in GeometryContainers
    /\ dom = [e \in Elements |-> [StartRect EXCEPT !.attached = (e = "e1")]]
    /\ budget = [camera |-> MaxCameraEvents, user |-> MaxUserEvents]
    /\ transform = NoTransform
    /\ notify = NoNotify
    /\ nodePos = [n \in Nodes |-> NodeStart]
    /\ Idle

\* The geometry again, from one starting point and with room for a sequence
\* of camera events.
InitSequence ==
    /\ zoom = <<1, 1>>
    /\ container = [left |-> 40, top |-> 10]
    /\ dom = [e \in Elements |-> [StartRect EXCEPT !.attached = (e = "e1")]]
    /\ budget = [camera |-> MaxCameraSequence, user |-> MaxUserEvents]
    /\ transform = NoTransform
    /\ notify = NoNotify
    /\ nodePos = [n \in Nodes |-> NodeStart]
    /\ Idle

-----------------------------------------------------------------------------
(* Actions *)

\* The caller pins an attached overlay that no other id is pinned to.
Pin(id, n, e) ==
    /\ dom[e].attached
    /\ \A i \in 1..Len(trackingMap) :
          closures[trackingMap[i].value].el = e => trackingMap[i].key = id
    /\ FreeSlots(repinCleanup(World, id)) # {}
    /\ Commit(pinHoverEditorToNode(World, id, n, e))
    /\ lastEvent' = [lastEvent EXCEPT ![id] = "pin"]
    /\ call' = [op |-> "pin", id |-> id,
                torn |-> pinHoverEditorToNode(World, id, n, e).torn]
    /\ UNCHANGED <<envVars, budget>>
    /\ UNCHANGED otherVars

Unpin(id) ==
    /\ Commit(cleanup(World, id))
    /\ lastEvent' = [lastEvent EXCEPT ![id] = "unpin"]
    /\ call' = [op |-> "unpin", id |-> id, torn |-> cleanup(World, id).torn]
    /\ UNCHANGED <<envVars, budget>>
    /\ UNCHANGED otherVars

UnpinAll ==
    /\ Commit(cleanupAll(World))
    /\ lastEvent' = [id \in Ids |-> "unpinAll"]
    /\ call' = [op |-> "unpinAll", id |-> "-", torn |-> cleanupAll(World).torn]
    /\ UNCHANGED <<envVars, budget>>
    /\ UNCHANGED otherVars

\* cy.viewport({zoom, pan}), a wheel zoom or a drag-pan: one 'viewport' event.
Viewport(z, p) ==
    /\ budget.camera > 0
    /\ <<z, p>> # <<zoom, pan>>
    /\ zoom' = z
    /\ pan' = p
    /\ Commit(emit(World, cyListeners, 1))
    /\ budget' = [budget EXCEPT !.camera = @ - 1]
    /\ call' = NoCall
    /\ UNCHANGED <<container, nodePos, lastEvent>>
    /\ UNCHANGED otherVars

\* The node is moved in the graph: one 'position' event on the node.
MoveNode(n, q) ==
    /\ budget.camera > 0
    /\ q # nodePos[n]
    /\ nodePos' = [nodePos EXCEPT ![n] = q]
    /\ Commit(emit(World, {c \in Slots : <<n, c>> \in nodeListeners}, 1))
    /\ budget' = [budget EXCEPT !.camera = @ - 1]
    /\ call' = NoCall
    /\ UNCHANGED <<zoom, pan, container, lastEvent>>
    /\ UNCHANGED otherVars

Frame ==
    /\ moPending = {}
    /\ rafQueue # <<>> \/ roPending # {}
    /\ Commit(frame(World))
    /\ call' = NoCall
    /\ UNCHANGED <<envVars, budget, lastEvent>>
    /\ UNCHANGED otherVars

PollTick(c) ==
    /\ moPending = {}
    /\ c \in intervals
    /\ Commit(Polled(World, pollForDrag(World, c), c))
    /\ call' = NoCall
    /\ UNCHANGED <<envVars, budget, lastEvent>>
    /\ UNCHANGED otherVars

UserDrag(e, d) ==
    /\ moPending = {}
    /\ budget.user > 0
    /\ dom[e].attached
    /\ Commit(Dragged(Touch([World EXCEPT !.dom[e].left = RAdd(@, I(d.x)),
                                          !.dom[e].top = RAdd(@, I(d.y))], e), e, d))
    /\ budget' = [budget EXCEPT !.user = @ - 1]
    /\ call' = NoCall
    /\ UNCHANGED <<envVars, lastEvent>>
    /\ UNCHANGED otherVars

UserResize(e, s) ==
    /\ moPending = {}
    /\ budget.user > 0
    /\ dom[e].attached
    /\ <<dom[e].width, dom[e].height>> # <<I(s.width), I(s.height)>>
    /\ Commit(Touch([World EXCEPT
                       !.dom[e].width = I(s.width),
                       !.dom[e].height = I(s.height),
                       !.roPending = @ \cup {o \in resizeObservers : closures[o].el = e}],
                    e))
    /\ budget' = [budget EXCEPT !.user = @ - 1]
    /\ call' = NoCall
    /\ UNCHANGED <<envVars, lastEvent>>
    /\ UNCHANGED otherVars

\* The overlay is closed by its owner: every observer of the body is notified.
RemoveElement(e) ==
    /\ dom[e].attached
    /\ Commit([World EXCEPT !.dom[e].attached = FALSE,
                            !.moPending = mutationObservers])
    /\ call' = NoCall
    /\ UNCHANGED <<envVars, budget, lastEvent>>
    /\ UNCHANGED otherVars

\* The MutationObserver callback of closure c; it detects a removal when it
\* finds its overlay detached.
MutationCallback(c) ==
    /\ c \in moPending
    /\ Commit(mutationObserverCallback(World, c))
    /\ IF ~dom[closures[c].el].attached
       THEN /\ lastEvent' = [lastEvent EXCEPT ![closures[c].id] = "removal"]
            /\ call' = [op |-> "removal", id |-> closures[c].id,
                        torn |-> mutationObserverCallback(World, c).torn]
       ELSE /\ lastEvent' = lastEvent
            /\ call' = NoCall
    /\ UNCHANGED <<envVars, budget>>
    /\ UNCHANGED otherVars

Next ==
    \/ \E pr \in Pairs, n \in Nodes : Pin(pr[1], n, pr[2])
    \/ \E id \in Ids : Unpin(id)
    \/ UnpinAll
    \/ \E z \in Zooms, p \in Pans : Viewport(z, p)
    \/ Frame
    \/ \E c \in Slots : PollTick(c)
    \/ \E e \in Elements : RemoveElement(e)
    \/ \E c \in Slots : MutationCallback(c)

Spec == Init /\ [][Next]_vars

\* One overlay, pinned once under one id and never unpinned.
NextGeometry ==
    \/ \E n \in Nodes : ~hasTracking("t1") /\ Pin("t1", n, "e1")
    \/ \E z \in GeometryZooms, p \in GeometryPans : Viewport(z, p)
    \/ \E n \in Nodes, q \in GeometryNodePositions : MoveNode(n, q)
    \/ Frame
    \/ \E c \in Slots : PollTick(c)
    \/ \E d \in DragDeltas : UserDrag("e1", d)
    \/ \E s \in UserSizes : UserResize("e1", s)

SpecGeometry == InitGeometry /\ [][NextGeometry]_vars

\* One overlay, pinned once, a camera that pans and zooms, a node that moves
\* and a user who drags the overlay.
NextSequence ==
    \/ \E n \in Nodes : ~hasTracking("t1") /\ Pin("t1", n, "e1")
    \/ \E z \in GeometryZooms, p \in GeometryPans : Viewport(z, p)
    \/ \E n \in Nodes, q \in GeometryNodePositions : MoveNode(n, q)
    \/ Frame
    \/ \E c \in Slots : PollTick(c)
    \/ UserDrag("e1", SequenceDrag)

SpecSequence == InitSequence /\ [][NextSequence]_vars

\* The step that runs the queued animation-frame callbacks, seen on the
\* queue alone: Frame is the only action that empties it.
FrameRuns == rafQueue # <<>> /\ rafQueue' = <<>>

\* The same with the browser's guarantee that a requested animation frame
\* comes: a frame with queued callbacks is not postponed forever.
SpecSequenceFrames == SpecSequence /\ WF_rafQueue(FrameRuns)

\* One overlay, pinned once, a camera that moves and a user who drags the
\* overlay by more and by less than the poller's tolerance.
NextPoll ==
    \/ \E n \in Nodes : ~hasTracking("t1") /\ Pin("t1", n, "e1")
    \/ \E z \in GeometryZooms, p \in GeometryPans : Viewport(z, p)
    \/ Frame
    \/ \E c \in Slots : PollTick(c)
    \/ \E d \in PollDrags : UserDrag("e1", d)

SpecPoll == InitGeometry /\ [][NextPoll]_vars

\* A step of a camera animation, as started by viz.animate({fit: ...}): the
\* camera changes inside a frame, after the callbacks queued for that frame.
AnimationFrame(z, p) ==
    /\ moPending = {}
    /\ budget.camera > 0
    /\ <<z, p>> # <<zoom, pan>>
    /\ zoom' = z
    /\ pan' = p
    /\ Commit(animationFrame(World, z))
    /\ budget' = [budget EXCEPT !.camera = @ - 1]
    /\ call' = NoCall
    /\ UNCHANGED <<container, nodePos, lastEvent>>
    /\ UNCHANGED otherVars

\* One overlay, pinned once, under a camera that is moved by the user and by
\* animations; the user never touches the overlay.
NextAnimation ==
    \/ \E n \in Nodes : ~hasTracking("t1") /\ Pin("t1", n, "e1")
    \/ \E z \in GeometryZooms, p \in GeometryPans : Viewport(z, p)
    \/ \E z \in GeometryZooms, p \in GeometryPans : AnimationFrame(z, p)
    \/ Frame
    \/ \E c \in Slots : PollTick(c)

SpecAnimation == InitSequence /\ [][NextAnimation]_vars

\* eles.remove() takes the node out of the graph. Cytoscape keeps the handle
\* and the position of a removed element; the node is marked as removed.
isRemoved(n) == "removed" \in DOMAIN nodePos[n]

RemoveNode(n) ==
    /\ ~isRemoved(n)
    /\ nodePos' = [nodePos EXCEPT ![n] = [x |-> @.x, y |-> @.y, removed |-> TRUE]]
    /\ Commit(World)
    /\ call' = NoCall
    /\ UNCHANGED <<zoom, pan, container, budget, lastEvent>>
    /\ UNCHANGED otherVars

\* One overlay, pinned once: the camera moves, and the node and the overlay
\* can both disappear while the entry is tracked.
NextMissing ==
    \/ \E n \in Nodes : ~hasTracking("t1") /\ Pin("t1", n, "e1")
    \/ \E z \in GeometryZooms, p \in GeometryPans : Viewport(z, p)
    \/ Frame
    \/ \E c \in Slots : PollTick(c)
    \/ \E n \in Nodes : RemoveNode(n)
    \/ RemoveElement("e1")
    \/ \E c \in Slots : MutationCallback(c)

SpecMissing == InitSequence /\ [][NextMissing]_vars

\* The overlay before its first layout pass: offsetWidth and offsetHeight
\* read zero.
InitLayout ==
    /\ zoom = <<1, 1>>
    /\ container = [left |-> 40, top |-> 10]
    /\ dom = [e \in Elements |-> [StartRect EXCEPT !.attached = (e = "e1"),
                                                   !.width = I(0), !.height = I(0)]]
    /\ budget = [camera |-> MaxCameraSequence, user |-> MaxUserEvents]
    /\ transform = NoTransform
    /\ notify = NoNotify
    /\ nodePos = [n \in Nodes |-> NodeStart]
    /\ Idle

\* The first layout pass gives the overlay its size, unless a repaint has
\* already set style.width and style.height.
Layout(e) ==
    /\ moPending = {}
    /\ dom[e].attached
    /\ dom[e].width = I(0) /\ dom[e].height = I(0)
    /\ \A c \in Slots : closures[c].el = e => lastPaint[c] = NoPaint
    /\ Commit([World EXCEPT
                 !.dom[e].width = StartRect.width,
                 !.dom[e].height = StartRect.height,
                 !.roPending = @ \cup {o \in resizeObservers : closures[o].el = e}])
    /\ call' = NoCall
    /\ UNCHANGED <<envVars, budget, lastEvent>>
    /\ UNCHANGED otherVars

\* One overlay that can be pinned before or after its first layout pass.
NextLayout ==
    \/ \E n \in Nodes : ~hasTracking("t1") /\ Pin("t1", n, "e1")
    \/ Layout("e1")
    \/ \E z \in GeometryZooms, p \in GeometryPans : Viewport(z, p)
    \/ Frame
    \/ \E c \in Slots : PollTick(c)

SpecLayout == InitLayout /\ [][NextLayout]_vars

\* The two transforms on their own: a floating-point value and a zoom, and up
\* to two calls, each on the result of the one before.
InitTransform ==
    /\ transform \in {[value |-> v, zoom |-> z, result |-> v, path |-> <<>>] :
                         v \in TransformValues, z \in TransformZooms}
    /\ zoom = <<1, 1>>
    /\ container = [left |-> 40, top |-> 10]
    /\ dom = [e \in Elements |-> StartRect]
    /\ budget = [camera |-> MaxCameraEvents, user |-> MaxUserEvents]
    /\ notify = NoNotify
    /\ nodePos = [n \in Nodes |-> NodeStart]
    /\ Idle

ToScreen ==
    /\ Len(transform.path) < 2
    /\ transform' = [transform EXCEPT
                        !.result = RoundToNearest(graphToScreen(@, transform.zoom)),
                        !.path = Append(@, "toScreen")]
    /\ UNCHANGED <<overlayVars, notify>>

ToGraph ==
    /\ Len(transform.path) < 2
    /\ transform' = [transform EXCEPT
                        !.result = RoundToNearest(screenToGraph(@, transform.zoom)),
                        !.path = Append(@, "toGraph")]
    /\ UNCHANGED <<overlayVars, notify>>

NextTransform == ToScreen \/ ToGraph

SpecTransform == InitTransform /\ [][NextTransform]_vars

-----------------------------------------------------------------------------
(* The debounced implementation: actions *)

DebouncedWorld == [rect |-> dom["e1"], s |-> notify]

CommitDebounced(w) ==
    /\ dom' = [dom EXCEPT !["e1"] = w.rect]
    /\ notify' = w.s
    /\ UNCHANGED <<container, registryVars, transform>>

DebouncedPin ==
    /\ ~notify.tracked
    /\ LET cam == Camera(zoom, pan, nodePos["n1"])
       IN  CommitDebounced([pinHoverEditorToNodeDebounced(DebouncedWorld, cam)
                              EXCEPT !.s.last = "pin"])
    /\ UNCHANGED <<zoom, pan, nodePos, budget>>

\* A pan carries 'pan', a zoom carries 'zoom', a zoom about a point both.
DebouncedViewport(z, p) ==
    /\ budget.camera > 0
    /\ <<z, p>> # <<zoom, pan>>
    /\ zoom' = z
    /\ pan' = p
    /\ LET cam == Camera(z, p, nodePos["n1"])
           times == (IF z # zoom THEN 1 ELSE 0) + (IF p # pan THEN 1 ELSE 0)
       IN  CommitDebounced(Notified(DebouncedWorld,
                                    emitDebounced(DebouncedWorld, cam, times), cam))
    /\ budget' = [budget EXCEPT !.camera = @ - 1]
    /\ UNCHANGED nodePos

DebouncedMoveNode(q) ==
    /\ budget.camera > 0
    /\ q # nodePos["n1"]
    /\ nodePos' = [nodePos EXCEPT !["n1"] = q]
    /\ LET cam == Camera(zoom, pan, q)
       IN  CommitDebounced(Notified(DebouncedWorld,
                                    emitDebounced(DebouncedWorld, cam, 1), cam))
    /\ budget' = [budget EXCEPT !.camera = @ - 1]
    /\ UNCHANGED <<zoom, pan>>

MovementTimeout ==
    /\ notify.timer
    /\ CommitDebounced([movementTimeoutCallback(DebouncedWorld) EXCEPT !.s.last = "timeout"])
    /\ UNCHANGED <<zoom, pan, nodePos, budget>>

DebouncedUserDrag(d) ==
    /\ notify.tracked
    /\ budget.user > 0
    /\ CommitDebounced([DebouncedWorld EXCEPT !.rect.left = RAdd(@, I(d.x)),
                                              !.rect.top = RAdd(@, I(d.y)),
                                              !.s.last = "user"])
    /\ budget' = [budget EXCEPT !.user = @ - 1]
    /\ UNCHANGED <<zoom, pan, nodePos>>

DebouncedUserResize(sz) ==
    /\ notify.tracked
    /\ budget.user > 0
    /\ <<dom["e1"].width, dom["e1"].height>> # <<I(sz.width), I(sz.height)>>
    /\ CommitDebounced([UserResized(DebouncedWorld, I(sz.width), I(sz.height), zoom)
                          EXCEPT !.rect.width = I(sz.width),
                                 !.rect.height = I(sz.height),
                                 !.s.last = "user"])
    /\ budget' = [budget EXCEPT !.user = @ - 1]
    /\ UNCHANGED <<zoom, pan, nodePos>>

InitDebounced ==
    /\ zoom = <<1, 1>>
    /\ container = [left |-> 0, top |-> 0]
    /\ dom = [e \in Elements |-> [StartRect EXCEPT !.attached = (e = "e1")]]
    /\ budget = [camera |-> MaxNotifications, user |-> MaxUserEvents]
    /\ transform = NoTransform
    /\ notify = NoNotify
    /\ nodePos = [n \in Nodes |-> DebouncedNodeStart]
    /\ Idle

NextDebounced ==
    \/ DebouncedPin
    \/ \E p \in DebouncedPans : DebouncedViewport(zoom, p)
    \/ \E z \in DebouncedZooms : DebouncedViewport(z, pan)
    \/ \E q \in DebouncedNodePositions : DebouncedMoveNode(q)
    \/ MovementTimeout
    \/ \E d \in DragDeltas : DebouncedUserDrag(d)
    \/ \E sz \in DebouncedSizes : DebouncedUserResize(sz)

SpecDebounced == InitDebounced /\ [][NextDebounced]_vars

-----------------------------------------------------------------------------
(* The zoom-invariant variant: actions *)

ZoomInvariantPin ==
    /\ ~notify.tracked
    /\ LET cam == Camera(zoom, pan, nodePos["n1"])
           w == pinHoverEditorToNodeZoomInvariant(DebouncedWorld, cam)
       IN  CommitDebounced([Written([w EXCEPT !.s.written = <<>>], cam) EXCEPT
                               !.s.last = "pin",
                               !.s.pinBase = <<w.s.baseWidthZoomInvariant,
                                               w.s.baseHeightZoomInvariant>>])
    /\ UNCHANGED <<zoom, pan, nodePos, budget>>

\* A pan, or a zoom about a point (which moves the pan as well): one 'pan'
\* event, delivered when the camera has its new zoom and pan.
ZoomInvariantViewport(z, p) ==
    /\ budget.camera > 0
    /\ p # pan
    /\ zoom' = z
    /\ pan' = p
    /\ LET cam == Camera(z, p, nodePos["n1"])
       IN  CommitDebounced(NotifiedZoomInvariant(DebouncedWorld,
                               emitZoomInvariant(DebouncedWorld, cam), cam))
    /\ budget' = [budget EXCEPT !.camera = @ - 1]
    /\ UNCHANGED nodePos

\* cy.zoom(level) keeps the pan: a 'zoom' event, which nothing listens to.
ZoomInvariantZoom(z) ==
    /\ budget.camera > 0
    /\ z # zoom
    /\ zoom' = z
    /\ notify' = [notify EXCEPT !.last = "zoom"]
    /\ budget' = [budget EXCEPT !.camera = @ - 1]
    /\ UNCHANGED <<pan, nodePos, dom, container, registryVars, transform>>

ZoomInvariantMoveNode(q) ==
    /\ budget.camera > 0
    /\ q # nodePos["n1"]
    /\ nodePos' = [nodePos EXCEPT !["n1"] = q]
    /\ LET cam == Camera(zoom, pan, q)
       IN  CommitDebounced(NotifiedZoomInvariant(DebouncedWorld,
                               emitZoomInvariant(DebouncedWorld, cam), cam))
    /\ budget' = [budget EXCEPT !.camera = @ - 1]
    /\ UNCHANGED <<zoom, pan>>

ZoomInvariantUserResize(sz) ==
    /\ notify.tracked
    /\ budget.user > 0
    /\ <<dom["e1"].width, dom["e1"].height>> # <<I(sz.width), I(sz.height)>>
    /\ CommitDebounced([UserResized(DebouncedWorld, I(sz.width), I(sz.height), zoom)
                          EXCEPT !.rect.width = I(sz.width),
                                 !.rect.height = I(sz.height),
                                 !.s.last = "user",
                                 !.s.written = <<>>])
    /\ budget' = [budget EXCEPT !.user = @ - 1]
    /\ UNCHANGED <<zoom, pan, nodePos>>

MaxFrames == MaxCameraEvents + InitializationFrames

ZoomInvariantZooms == {<<1, 16>>, <<1, 1>>, <<8, 1>>}
ZoomInvariantPans == {Origin, [x |-> 100, y |-> 50]}
ZoomInvariantSizes == {[width |-> 600, height |-> 450]}

InitZoomInvariant ==
    /\ zoom = <<1, 1>>
    /\ container = [left |-> 0, top |-> 0]
    /\ dom = [e \in Elements |-> [StartRect EXCEPT !.attached = (e = "e1")]]
    /\ budget = [camera |-> MaxFrames, user |-> MaxUserEvents]
    /\ transform = NoTransform
    /\ notify = NoNotifyZoomInvariant
    /\ nodePos = [n \in Nodes |-> DebouncedNodeStart]
    /\ Idle

NextZoomInvariant ==
    \/ ZoomInvariantPin
    \/ \E z \in ZoomInvariantZooms, p \in ZoomInvariantPans : ZoomInvariantViewport(z, p)
    \/ \E z \in ZoomInvariantZooms : ZoomInvariantZoom(z)
    \/ \E q \in DebouncedNodePositions : ZoomInvariantMoveNode(q)
    \/ MovementTimeout
    \/ \E d \in DragDeltas : DebouncedUserDrag(d)
    \/ \E sz \in ZoomInvariantSizes : ZoomInvariantUserResize(sz)

SpecZoomInvariant == InitZoomInvariant /\ [][NextZoomInvariant]_vars

\* The zoom-invariant variant when the hover editor's popover may not be in
\* the document at the time the pin looks for it: it is created, if at all,
\* by the hover editor plugin, before or after the pin's wait has ended.
OverlayCreated ==
    /\ ~dom["e1"].attached
    /\ dom' = [dom EXCEPT !["e1"].attached = TRUE]
    /\ notify' = [notify EXCEPT !.last = "created"]
    /\ UNCHANGED <<zoom, pan, nodePos, budget, container, registryVars, transform>>

InitNoOverlay ==
    /\ zoom = <<1, 1>>
    /\ container = [left |-> 0, top |-> 0]
    /\ dom = [e \in Elements |-> [StartRect EXCEPT !.attached = FALSE]]
    /\ budget = [camera |-> MaxFrames, user |-> MaxUserEvents]
    /\ transform = NoTransform
    /\ notify = NoNotifyZoomInvariant
    /\ nodePos = [n \in Nodes |-> DebouncedNodeStart]
    /\ Idle

NextNoOverlay ==
    \/ OverlayCreated
    \/ ZoomInvariantPin
    \/ \E z \in ZoomInvariantZooms, p \in ZoomInvariantPans : ZoomInvariantViewport(z, p)
    \/ \E z \in ZoomInvariantZooms : ZoomInvariantZoom(z)
    \/ \E q \in DebouncedNodePositions : ZoomInvariantMoveNode(q)
    \/ MovementTimeout
    \/ \E d \in DragDeltas : DebouncedUserDrag(d)
    \/ \E sz \in ZoomInvariantSizes : ZoomInvariantUserResize(sz)

SpecNoOverlay == InitNoOverlay /\ [][NextNoOverlay]_vars

-----------------------------------------------------------------------------
(* Properties *)

\* Closure c holds a subscription.
Subscribed(c) ==
    \/ c \in cyListeners
    \/ \E n \in Nodes : <<n, c>> \in nodeListeners
    \/ c \in resizeObservers
    \/ c \in mutationObservers
    \/ c \in intervals

\* Closure c is live and the frame about to run repaints its overlay.
Repaints(c) == InQueue(rafQueue, c) /\ c \in cyListeners

\* The node's top-left corner in viewport coordinates when c last painted.
paintedNodeViewport(c) ==
    [x |-> RAdd(I(container.left),
                RAdd(RMul(I(lastPaint[c].npos.x), lastPaint[c].zoom), I(lastPaint[c].pan.x))),
     y |-> RAdd(I(container.top),
                RAdd(RMul(I(lastPaint[c].npos.y), lastPaint[c].zoom), I(lastPaint[c].pan.y)))]

C2_PanFidelity ==
    [][\A c \in Slots :
          ( /\ Frame
            /\ Repaints(c)
            /\ ~lastPaint[c].touched
            /\ lastPaint[c].zoom = zoom
            /\ lastPaint[c].npos = nodePos[closures[c].node]
            /\ lastPaint[c].pan # pan )
          => LET e == closures[c].el
             IN  /\ dom'[e].left = RAdd(dom[e].left, I(pan.x - lastPaint[c].pan.x))
                 /\ dom'[e].top = RAdd(dom[e].top, I(pan.y - lastPaint[c].pan.y))
                 /\ dom'[e].width = dom[e].width
                 /\ dom'[e].height = dom[e].height]_vars

\* C3 (zoom scaling): when the zoom has changed from z1 to z2 since the
\* overlay's last repaint, with the pan and the node's graph position
\* unchanged and the overlay untouched by the user, then after the repaint the
\* overlay's pixel offset from the node's rendered corner is the previous one
\* times z2/z1, and the written size is PositionState.size times z2.
C3_ZoomScaling ==
    [][\A c \in Slots :
          ( /\ Frame
            /\ Repaints(c)
            /\ ~lastPaint[c].touched
            /\ lastPaint[c].zoom # zoom
            /\ lastPaint[c].npos = nodePos[closures[c].node]
            /\ lastPaint[c].pan = pan )
          => LET e == closures[c].el
                 ratio == RDiv(zoom, lastPaint[c].zoom)
                 before == paintedNodeViewport(c)
                 after == nodeViewport(closures[c].node)
             IN  /\ RSub(dom'[e].left, after.x) = RMul(RSub(dom[e].left, before.x), ratio)
                 /\ RSub(dom'[e].top, after.y) = RMul(RSub(dom[e].top, before.y), ratio)
                 /\ dom'[e].width = RMul(closures'[c].width, zoom)
                 /\ dom'[e].height = RMul(closures'[c].height, zoom)]_vars

\* C4 (drag round-trip): when the user has moved the overlay by (dx, dy),
\* more than the tolerance on some axis, with the camera at zoom z, then after
\* the next poll tick PositionState.offset is the offset it was at the drag
\* plus (dx / z, dy / z).
C4_DragRoundTrip ==
    [][\A c \in Slots :
          ( /\ PollTick(c)
            /\ drag[c].status = "pending"
            /\ drag[c].zoom = zoom
            /\ Abs(drag[c].dx) > Threshold \/ Abs(drag[c].dy) > Threshold )
          => /\ closures'[c].offsetX = RAdd(drag[c].offsetX, RDiv(I(drag[c].dx), zoom))
             /\ closures'[c].offsetY = RAdd(drag[c].offsetY, RDiv(I(drag[c].dy), zoom))]_vars

\* C5 (drag-then-zoom composition): once the poller has stored the offset of
\* a user drag at zoom z1, a repaint at a later zoom z2, with no new drag in
\* between, puts the overlay at the node's rendered corner plus that stored
\* offset times z2, and PositionState.offset still is that stored offset.
C5_DragThenZoom ==
    [][\A c \in Slots :
          ( /\ Frame
            /\ Repaints(c)
            /\ drag[c].status = "stored"
            /\ drag[c].zoom # zoom )
          => LET e == closures[c].el
                 node == nodeViewport(closures[c].node)
             IN  /\ dom'[e].left = RAdd(node.x, RMul(drag[c].offsetX, zoom))
                 /\ dom'[e].top = RAdd(node.y, RMul(drag[c].offsetY, zoom))
                 /\ closures'[c].offsetX = drag[c].offsetX
                 /\ closures'[c].offsetY = drag[c].offsetY]_vars

\* C6 (teardown idempotence): an unpin of an id that is not tracked, the
\* second of two unpins in a row among them, leaves the registry, every
\* subscription and every overlay exactly as they were.
C6_TeardownIdempotence ==
    [][\A id \in Ids : (Unpin(id) /\ ~hasTracking(id)) => UNCHANGED progVars]_vars

\* An unpin of an untracked id has just run while another id is tracked.
C6_Witness ==
    /\ call.op = "unpin"
    /\ call.torn = <<>>
    /\ trackingMap # <<>>

\* C7 (removal detection): once a tracked overlay is removed from the
\* document its removal watcher has a callback pending, and when that callback
\* runs the entry is torn down, all its subscriptions released, and the id is
\* no longer tracked.
C7_RemovalDetection ==
    [][\A c \in Slots :
          /\ (c \in mutationObservers' /\ ~dom'[closures'[c].el].attached)
                => c \in moPending'
          /\ (MutationCallback(c) /\ ~dom[closures[c].el].attached)
                => /\ ~MapHas(trackingMap', closures[c].id)
                   /\ c \notin cyListeners' \cup resizeObservers'
                                \cup mutationObservers' \cup intervals'
                   /\ \A n \in Nodes : <<n, c>> \notin nodeListeners']_vars

\* A removal watcher has just found its overlay gone and torn its entry down.
C7_Witness ==
    /\ call.op = "removal"
    /\ call.torn = <<call.id>>
    /\ ~hasTracking(call.id)

\* C8 (one entry per id): the registry holds at most one entry per id, and
\* only the closure registered under an id holds subscriptions for it; so the
\* closure a re-pin replaces has released its listeners, its timer and its
\* observers, and the entry the re-pin makes is the one registered.
C8_OneEntryPerId ==
    /\ \A i, j \in 1..Len(trackingMap) :
          trackingMap[i].key = trackingMap[j].key => i = j
    /\ \A c \in Slots :
          Subscribed(c) => /\ MapHas(trackingMap, closures[c].id)
                           /\ MapGet(trackingMap, closures[c].id) = c
    /\ call.op = "pin" => /\ hasTracking(call.id)
                          /\ Subscribed(MapGet(trackingMap, call.id))

\* A pin of a tracked id has just run: it tore the previous entry down.
C8_Witness ==
    /\ call.op = "pin"
    /\ call.torn = <<call.id>>
    /\ hasTracking(call.id)

\* C9 (unpinAll): an unpinAll leaves the registry empty and no subscription
\* behind, and it runs the teardown of every entry that was tracked exactly
\* once.
C9_UnpinAll ==
    [][UnpinAll =>
          /\ trackingMap' = <<>>
          /\ \A c \in Slots : ~Subscribed(c)'
          /\ Len(call'.torn) = Len(trackingMap)
          /\ \A i \in 1..Len(trackingMap) :
                Cardinality({j \in 1..Len(call'.torn) :
                               call'.torn[j] = trackingMap[i].key}) = 1]_vars

\* An unpinAll has just torn down two entries.
C9_Witness ==
    /\ call.op = "unpinAll"
    /\ Len(call.torn) = 2
    /\ trackingMap = <<>>

\* C10 (tracking follows the history): an id is tracked exactly when the last
\* event that affected it was a pin, and not an unpin, an unpinAll or a
\* detected removal.
C10_TrackedIffLastEventPin ==
    \A id \in Ids : hasTracking(id) <=> lastEvent[id] = "pin"

\* One id lost its entry to a detected removal while the other is pinned.
C10_Witness ==
    /\ lastEvent["t1"] = "removal"
    /\ lastEvent["t2"] = "pin"
    /\ hasTracking("t2")
    /\ ~hasTracking("t1")

\* C11 (frame coalescing): however many camera or node notifications have
\* reached a closure since its last repaint, at most one frame callback of it
\* is pending; and a subscribed closure whose camera or node has changed since
\* its last repaint has exactly one pending, so that the next frame repaints
\* its overlay exactly once.
C11_FrameCoalescing ==
    \A c \in Slots :
       LET pending == Cardinality({i \in 1..Len(rafQueue) : rafQueue[i] = c})
       IN  /\ pending <= 1
           /\ (pending = 1) <=> closures[c].updatePending
           /\ ( /\ c \in cyListeners
                /\ <<lastPaint[c].zoom, lastPaint[c].pan, lastPaint[c].npos>>
                      # <<zoom, pan, nodePos[closures[c].node]>> )
              => pending = 1

\* Since the closure's last repaint the camera has panned and the node has
\* moved, two notifications, and one frame callback is pending.
C11_Witness ==
    \E c \in Slots :
       /\ c \in cyListeners
       /\ rafQueue = <<c>>
       /\ lastPaint[c].pan # pan
       /\ lastPaint[c].npos # nodePos[closures[c].node]

\* The rounding two floating-point operations can add up to: with u = 2^-Precision
\* the relative error of one, r is within v * (2u + u^2) of v.
WithinRounding(r, v) ==
    ~RGt(RMul(RAbs(RSub(r, v)), I(Pow2(2 * Precision))),
         RMul(RAbs(v), I(Pow2(Precision + 1) + 1)))

\* C12 (transform round-trip), as the code has it: for every scalar and every
\* zoom z > 0, toGraph(toScreen(v, z), z) and toScreen(toGraph(s, z), z) are
\* the scalar they started from up to the rounding of the two floating-point
\* operations, and exactly that scalar when the zoom is a power of two.
C12_RoundTripWithinRounding ==
    (transform.path \in {<<"toScreen", "toGraph">>, <<"toGraph", "toScreen">>})
       => /\ WithinRounding(transform.result, transform.value)
          /\ (\E k \in 0..Precision :
                 transform.zoom = I(Pow2(k)) \/ transform.zoom = <<1, Pow2(k)>>)
                => transform.result = transform.value

\* C12 as stated: the round trip gives back exactly the scalar it started
\* from, for every scalar and every zoom z > 0.
C12_RoundTripExact ==
    (transform.path \in {<<"toScreen", "toGraph">>, <<"toGraph", "toScreen">>})
       => transform.result = transform.value

\* A round trip through a zoom that is not a power of two has come back to
\* the scalar it started from, with a rounded value in between.
C12_Witness ==
    /\ transform.path = <<"toGraph", "toScreen">>
    /\ transform.zoom = <<3, 1>>
    /\ transform.value = <<5, 1>>
    /\ transform.result = transform.value

C18_NoMisclassification ==
    [][\A c \in Slots :
          (budget'.user = MaxUserEvents /\ c \in intervals)
          => /\ closures'[c].offsetX = closures[c].offsetX
             /\ closures'[c].offsetY = closures[c].offsetY]_vars

\* C19 (a user drag is never lost): while a user drag of more than the
\* tolerance waits for its poll tick, a frame does not write the position of
\* the pre-drag offset over it, and the poll tick that takes it stores the
\* offset it had at the drag plus the drag in graph units.
C19_DragNeverLost ==
    [][\A c \in Slots :
          ( /\ drag[c].status = "pending"
            /\ c \in intervals
            /\ Abs(drag[c].dx) > Threshold \/ Abs(drag[c].dy) > Threshold )
          => LET e == closures[c].el
                 node == nodeViewport(closures[c].node)
             IN  /\ (Frame /\ Repaints(c))
                       => ~ /\ dom'[e].left = RAdd(node.x, RMul(drag[c].offsetX, zoom))
                            /\ dom'[e].top = RAdd(node.y, RMul(drag[c].offsetY, zoom))
                 /\ PollTick(c)
                       => /\ closures'[c].offsetX =
                                RAdd(drag[c].offsetX, RDiv(I(drag[c].dx), drag[c].zoom))
                          /\ closures'[c].offsetY =
                                RAdd(drag[c].offsetY, RDiv(I(drag[c].dy), drag[c].zoom))]_vars

\* C20 (lock-step of prediction): in every state the position the poller
\* expects of a closure is the position a repaint of it would write; and in
\* the state a frame's repaint leaves (the camera is the one the repaint read),
\* the overlay is at the expected position and a poll tick changes nothing.
C20_LockStep ==
    [][\A c \in Slots :
          /\ c \in intervals
                => /\ pollExpected(closures[c]).x = updateTarget(closures[c]).left
                   /\ pollExpected(closures[c]).y = updateTarget(closures[c]).top
          /\ (Frame /\ Repaints(c))
                => LET w == Collect(frame(World))
                   IN  /\ dom'[closures[c].el] = w.dom[closures[c].el]
                       /\ pollExpected(w.closures[c])
                             = [x |-> w.dom[closures[c].el].left,
                                y |-> w.dom[closures[c].el].top]
                       /\ pollForDrag(w, c) = w]_vars

\* A repaint has moved an overlay the user never touched, in a container
\* whose origin is not the viewport's, and the overlay is where the poller
\* expects it.
C20_Witness ==
    \E c \in intervals :
       /\ budget.user = MaxUserEvents
       /\ container.left # 0
       /\ rafQueue = <<>>
       /\ dom[closures[c].el].left # StartRect.left
       /\ pollExpected(closures[c]).x = dom[closures[c].el].left
       /\ pollExpected(closures[c]).y = dom[closures[c].el].top

\* C15 (default placement): directly after the pin, and after every repaint
\* that a later notification makes, an overlay the user has not touched has
\* its top-left corner at the node's rendered centre plus (300, -50) times the
\* current zoom.
C15_DefaultPlacement ==
    ( /\ notify.tracked
      /\ budget.user = MaxUserEvents
      /\ notify.last \in {"pin", "notification"} )
    => LET center == renderedCenter(Camera(zoom, pan, nodePos["n1"]))
       IN  /\ dom["e1"].left = RAdd(center.x, RMul(I(300), zoom))
           /\ dom["e1"].top = RAdd(center.y, RMul(I(-50), zoom))

\* The size limits, applied to a width and to a height.
LimitedWidth(x) == RMax(I(50), RMin(I(800), x))
LimitedHeight(x) == RMax(I(38), RMin(I(1200), x))

\* C16 (resize proportion across zoom): once a notification has detected a
\* manual resize to k times the size the overlay had been given, every
\* repaint at zoom z writes, within the size limits, the base width times z
\* times k, and the base height times z times k.
C16_ResizeProportion ==
    (notify.resize.status = "detected" /\ notify.last = "notification")
    => LET kWidth == RDiv(notify.resize.userWidth, notify.resize.predictedWidth)
           kHeight == RDiv(notify.resize.userHeight, notify.resize.predictedHeight)
       IN  /\ dom["e1"].width = LimitedWidth(RMul(RMul(notify.baseWidth, zoom), kWidth))
           /\ dom["e1"].height = LimitedHeight(RMul(RMul(notify.baseHeight, zoom), kHeight))

\* C17 (size limits): every repaint writes a width between 50 and 800 and a
\* height between 38 and 1200; as long as the user has not resized the
\* overlay the stored base size is the one the pin computed, and a repaint
\* at a zoom the overlay was painted at before writes the size it wrote then.
C17_SizeLimits ==
    (notify.last \in {"pin", "notification"} /\ notify.tracked)
    => /\ ~RGt(I(50), dom["e1"].width) /\ ~RGt(dom["e1"].width, I(800))
       /\ ~RGt(I(38), dom["e1"].height) /\ ~RGt(dom["e1"].height, I(1200))
       /\ budget.user = MaxUserEvents
            => notify.pinBase = <<notify.baseWidthZoomInvariant,
                                  notify.baseHeightZoomInvariant>>
       /\ \A i \in 1..Len(notify.written) :
            notify.written[i][1] = zoom
            => <<notify.written[i][2], notify.written[i][3]>>
                 = <<dom["e1"].width, dom["e1"].height>>

\* C14 (pan, then drag, then zoom): a poll tick that finds the overlay where
\* the repaint after a pan put it, untouched by the user, leaves the offset
\* alone; and when the user has dragged the overlay by (dx, dy) at zoom z1
\* and the camera has then zoomed to z2, the repaint puts the overlay at the
\* node's rendered position plus z2 times the pre-drag offset plus
\* (dx / z1, dy / z1).
C14_PanDragZoom ==
    [][\A c \in Slots :
          c \in intervals
          => LET e == closures[c].el
                 node == nodeViewport(closures[c].node)
             IN  /\ ( /\ PollTick(c)
                      /\ budget.user = MaxUserEvents
                      /\ ~InQueue(rafQueue, c)
                      /\ lastPaint[c].pan = pan )
                       => /\ closures'[c].offsetX = closures[c].offsetX
                          /\ closures'[c].offsetY = closures[c].offsetY
                 /\ ( /\ Frame /\ Repaints(c)
                      /\ drag[c].status = "pending"
                      /\ drag[c].zoom # zoom )
                       => /\ dom'[e].left =
                                RAdd(node.x,
                                     RMul(RAdd(drag[c].offsetX,
                                               RDiv(I(drag[c].dx), drag[c].zoom)), zoom))
                          /\ dom'[e].top =
                                RAdd(node.y,
                                     RMul(RAdd(drag[c].offsetY,
                                               RDiv(I(drag[c].dy), drag[c].zoom)), zoom))]_vars

\* The PositionState of a closure.
PositionState(cl) ==
    [offsetX |-> cl.offsetX, offsetY |-> cl.offsetY, width |-> cl.width, height |-> cl.height]

\* C21 (the handler infers nothing): a camera or node notification leaves the
\* PositionState of every listening closure as it was, and so do the queued
\* frame callbacks when they run; a step that changes the PositionState of a
\* closure is a poll tick of that closure, which changes the offset, or the
\* delivery of a size-change notification in a frame, which changes the size.
C21_HandlerKeepsState ==
    [][\A c \in Slots :
          c \in cyListeners
          => /\ <<zoom, pan, nodePos>>' # <<zoom, pan, nodePos>>
                  => PositionState(closures'[c]) = PositionState(closures[c])
             /\ PositionState(runFrameCallbacks(World, rafQueue, 1).closures[c])
                  = PositionState(closures[c])
             /\ <<closures'[c].offsetX, closures'[c].offsetY>>
                     # <<closures[c].offsetX, closures[c].offsetY>>
                  => PollTick(c)
             /\ <<closures'[c].width, closures'[c].height>>
                     # <<closures[c].width, closures[c].height>>
                  => Frame /\ c \in roPending]_vars

\* A closure pinned at one zoom has been repainted at another, after a
\* notification, and its PositionState is still the one of the pin.
C21_Witness ==
    \E c \in Slots :
       /\ c \in cyListeners
       /\ budget.camera < MaxCameraEvents
       /\ ~closures[c].updatePending
       /\ lastPaint[c].zoom = zoom
       /\ dom[closures[c].el].width # StartRect.width
       /\ budget.user = MaxUserEvents
       /\ graphToScreen(closures[c].width, zoom) = dom[closures[c].el].width

\* C22 (poll tolerance): a poll tick that finds the overlay within 2 pixels of
\* the expected position on both axes leaves the PositionState as it is; one
\* that finds it more than 2 pixels away on at least one axis adds the whole
\* difference of both axes, divided by the current zoom, to the offset; and no
\* poll tick changes the width or the height.
C22_PollTolerance ==
    [][\A c \in Slots :
          PollTick(c)
          => LET e == closures[c].el
                 node == nodeViewport(closures[c].node)
                 dx == RSub(dom[e].left, RAdd(node.x, RMul(closures[c].offsetX, zoom)))
                 dy == RSub(dom[e].top, RAdd(node.y, RMul(closures[c].offsetY, zoom)))
             IN  /\ closures'[c].width = closures[c].width
                 /\ closures'[c].height = closures[c].height
                 /\ IF ~RGt(RAbs(dx), I(2)) /\ ~RGt(RAbs(dy), I(2))
                    THEN /\ closures'[c].offsetX = closures[c].offsetX
                         /\ closures'[c].offsetY = closures[c].offsetY
                    ELSE /\ closures'[c].offsetX = RAdd(closures[c].offsetX, RDiv(dx, zoom))
                         /\ closures'[c].offsetY = RAdd(closures[c].offsetY, RDiv(dy, zoom))]_vars

\* A poll tick has stored a drag of 3 pixels on one axis and 1 on the other,
\* and at zoom 1/2 the overlay is where the stored offset puts it.
C22_Witness ==
    \E c \in Slots :
       /\ drag[c].status = "stored"
       /\ drag[c].dx = 3
       /\ drag[c].dy = 1
       /\ zoom = <<1, 2>>
       /\ dom[closures[c].el].left
            = RAdd(nodeViewport(closures[c].node).x, RMul(closures[c].offsetX, zoom))
       /\ dom[closures[c].el].top
            = RAdd(nodeViewport(closures[c].node).y, RMul(closures[c].offsetY, zoom))

\* C23 (PositionState after a poll): in the state a poll tick of a closure
\* leaves, the position that the closure's PositionState gives under the
\* current camera, container origin and node position is within 2 pixels of
\* the overlay's actual position on each axis.
C23_StateMatchesAfterPoll ==
    [][\A c \in Slots :
          PollTick(c)
          => LET w == pollForDrag(World, c)
                 e == closures[c].el
                 node == nodeViewport(closures[c].node)
                 screenX == RAdd(node.x, RMul(w.closures[c].offsetX, zoom))
                 screenY == RAdd(node.y, RMul(w.closures[c].offsetY, zoom))
             IN  /\ closures'[c] = w.closures[c]
                 /\ dom' = w.dom
                 /\ ~RGt(RAbs(RSub(w.dom[e].left, screenX)), I(2))
                 /\ ~RGt(RAbs(RSub(w.dom[e].top, screenY)), I(2))]_vars

\* A poll tick at zoom 1/2 has stored a drag of (100, 50), and the overlay is
\* where the PositionState puts it.
C23_Witness ==
    \E c \in Slots :
       /\ drag[c].status = "stored"
       /\ drag[c].dx = 100
       /\ drag[c].zoom = <<1, 2>>
       /\ zoom = <<1, 2>>
       /\ rafQueue = <<>>
       /\ dom[closures[c].el].left
            = RAdd(nodeViewport(closures[c].node).x, RMul(closures[c].offsetX, zoom))

\* C24 (zoom change between polls): a poll tick of a closure whose overlay
\* has been repainted since the last camera or node change (no repaint is
\* waiting for its frame) and has not been moved by the user since that
\* repaint finds the overlay at the position expected under the current zoom
\* and leaves the offset alone, whatever the zoom was at the previous poll.
C24_PollAfterZoom ==
    [][\A c \in Slots :
          (/\ PollTick(c)
           /\ c \in cyListeners
           /\ ~closures[c].updatePending
           /\ ~lastPaint[c].touched)
          => LET cl == closures[c]
                 node == nodeViewport(cl.node)
             IN  /\ lastPaint[c].zoom = zoom
                 /\ dom[cl.el].left = RAdd(node.x, RMul(cl.offsetX, zoom))
                 /\ dom[cl.el].top = RAdd(node.y, RMul(cl.offsetY, zoom))
                 /\ closures'[c].offsetX = cl.offsetX
                 /\ closures'[c].offsetY = cl.offsetY]_vars

\* A poll tick stored a drag at zoom 1; the zoom has since changed to 1/2,
\* the overlay has been repainted for it and the user has not touched it
\* again: the next poll tick is the one the claim is about.
C24_Witness ==
    \E c \in Slots :
       /\ c \in intervals
       /\ c \in cyListeners
       /\ drag[c].status = "stored"
       /\ drag[c].zoom = <<1, 1>>
       /\ zoom = <<1, 2>>
       /\ lastPaint[c].zoom = <<1, 2>>
       /\ ~closures[c].updatePending
       /\ ~lastPaint[c].touched
       /\ closures[c].offsetX = drag[c].offsetX

\* C25 (zoom suppression window): a poll tick that runs after a zoom change
\* and before the frame that repaints the overlay for it (with a frame every
\* 16 ms and a tick every 200 ms, the first tick after the zoom change) does
\* not modify the closure's PositionState, whatever the overlay's position.
C25_ZoomSuppression ==
    [][\A c \in Slots :
          (/\ PollTick(c)
           /\ c \in cyListeners
           /\ closures[c].updatePending
           /\ lastPaint[c].zoom # zoom)
          => /\ closures'[c].offsetX = closures[c].offsetX
             /\ closures'[c].offsetY = closures[c].offsetY
             /\ closures'[c].width = closures[c].width
             /\ closures'[c].height = closures[c].height]_vars

\* C26 (size-change notification): when a frame delivers a size-change
\* notification to a closure, the closure's width and height become the
\* overlay's size at delivery divided by the zoom at delivery, and its
\* offsetX and offsetY stay as they were.
C26_SizeNotification ==
    [][\A c \in Slots :
          LET painted == runFrameCallbacks(World, rafQueue, 1)
              e == closures[c].el
          IN  (Frame /\ c \in painted.roPending)
              => /\ dom'[e].width = painted.dom[e].width
                 /\ dom'[e].height = painted.dom[e].height
                 /\ closures'[c].width = RDiv(painted.dom[e].width, zoom)
                 /\ closures'[c].height = RDiv(painted.dom[e].height, zoom)
                 /\ closures'[c].offsetX = closures[c].offsetX
                 /\ closures'[c].offsetY = closures[c].offsetY]_vars

\* The user resized the overlay to 600 x 450 at zoom 1/2 and the notification
\* has been delivered: the closure holds 1200 x 900.
C26_Witness ==
    \E c \in Slots :
       /\ c \in resizeObservers
       /\ roPending = {}
       /\ zoom = <<1, 2>>
       /\ dom[closures[c].el].width = I(600)
       /\ dom[closures[c].el].height = I(450)
       /\ closures[c].width = I(1200)
       /\ closures[c].height = I(900)

\* C27 (size stability without user resize): while the user never resizes
\* the overlay, no step changes the width or height that a closure computed
\* at its pin, whatever the order of camera changes, animation steps,
\* repaints, poll ticks and size-change notifications.
C27_SizeStable ==
    [][\A c \in Slots :
          (closures[c].id # "-" /\ closures'[c].id = closures[c].id)
          => /\ closures'[c].width = closures[c].width
             /\ closures'[c].height = closures[c].height]_vars

\* C28 (missing handle): when a poll tick or a queued repaint of a closure
\* fires while the closure's node has been removed from the graph or its
\* overlay has been removed from the document, the closure's id is not in
\* the registry after the step.
C28_MissingHandle ==
    [][\A c \in Slots :
          (/\ closures[c].id # "-"
           /\ isRemoved(closures[c].node) \/ ~dom[closures[c].el].attached
           /\ PollTick(c) \/ (Frame /\ InQueue(rafQueue, c)))
          => \A i \in 1..Len(trackingMap') : trackingMap'[i].key # closures[c].id]_vars

\* C29 (transient zero size): a size that reads as zero never becomes the
\* width or height of a closure's PositionState, and no repaint leaves the
\* overlay with a zero width or height.
C29_NoZeroSize ==
    \A c \in Slots :
       closures[c].id # "-"
       => /\ closures[c].width # I(0)
          /\ closures[c].height # I(0)
          /\ lastPaint[c] # NoPaint
             => /\ dom[closures[c].el].width # I(0)
                /\ dom[closures[c].el].height # I(0)

\* C30 (container origin): for every container origin, an overlay that has
\* been repainted since the last camera or node change and not touched since
\* is at container origin + the node's rendered top-left + offset * zoom;
\* the poller expects it at that same position; and a pin of an overlay the
\* user has not moved leaves it where it was. The overlay's distance from
\* the node is therefore offset * zoom at every zoom, the origin not entering.
C30_ContainerOrigin ==
    \A c \in Slots :
       (c \in cyListeners /\ ~closures[c].updatePending /\ ~lastPaint[c].touched)
       => LET cl == closures[c]
              box == renderedBoundingBox(cl.node)
              x == RAdd(RAdd(I(container.left), box.x1), RMul(cl.offsetX, zoom))
              y == RAdd(RAdd(I(container.top), box.y1), RMul(cl.offsetY, zoom))
          IN  /\ dom[cl.el].left = x
              /\ dom[cl.el].top = y
              /\ pollExpected(cl) = [x |-> x, y |-> y]
              /\ (call.op = "pin" /\ budget.user = MaxUserEvents)
                 => /\ dom[cl.el].left = StartRect.left
                    /\ dom[cl.el].top = StartRect.top

\* An overlay pinned at zoom 1 in a container at (40, 10), repainted after a
\* zoom to 1/2: offset (260, -60), node at (290, 210), overlay at (420, 180).
C30_Witness ==
    \E c \in Slots :
       /\ c \in cyListeners
       /\ ~closures[c].updatePending
       /\ ~lastPaint[c].touched
       /\ container = [left |-> 40, top |-> 10]
       /\ zoom = <<1, 2>>
       /\ lastPaint[c].zoom = <<1, 2>>
       /\ closures[c].offsetX = I(260)
       /\ closures[c].offsetY = I(-60)
       /\ dom[closures[c].el].left = I(420)
       /\ dom[closures[c].el].top = I(180)

\* C31 (idempotent re-pin): when an id is tracked by a closure that is
\* painted for the current camera and node position, has no repaint pending
\* and whose overlay the user has not touched since, a pin of the same id to
\* the same node and overlay gives the new closure the PositionState of the
\* old one, leaves the overlay's rectangle as it is, and leaves the new
\* closure as the only one that holds a subscription for the id.
C31_IdempotentRepin ==
    [][\A id \in Ids, n \in Nodes, e \in Elements :
          (/\ hasTracking(id)
           /\ closures[MapGet(trackingMap, id)].node = n
           /\ closures[MapGet(trackingMap, id)].el = e
           /\ ~closures[MapGet(trackingMap, id)].updatePending
           /\ lastPaint[MapGet(trackingMap, id)]
                = [zoom |-> zoom, pan |-> pan, npos |-> nodePos[n], touched |-> FALSE]
           /\ Pin(id, n, e))
          => LET old == MapGet(trackingMap, id)
                 new == MapGet(trackingMap', id)
             IN  /\ PositionState(closures'[new]) = PositionState(closures[old])
                 /\ dom'[e] = dom[e]
                 /\ \A c \in Slots :
                       (closures'[c].id = id /\ Subscribed(c)') => c = new
                 /\ new \in cyListeners' /\ <<n, new>> \in nodeListeners'
                 /\ new \in resizeObservers' /\ new \in mutationObservers'
                 /\ new \in intervals']_vars

\* C32 (no effect after teardown): a frame that runs a callback queued by a
\* closure that has since been torn down leaves every overlay as the same
\* frame would without that callback: the callback writes nothing.
C32_NoEffectAfterTeardown ==
    [][\A c \in Slots :
          (Frame /\ InQueue(rafQueue, c) /\ c \notin MapValues(trackingMap))
          => LET others == SelectSeq(rafQueue, LAMBDA x : x # c)
             IN  dom' = frame([World EXCEPT !.rafQueue = others]).dom]_vars

\* C33 (no lost repaint): a frame that runs the queued callback of a tracked
\* closure writes the overlay from the camera and node state of that frame,
\* clears the closure's pending flag and leaves no callback of it queued;
\* and whenever the flag of a tracked closure is set, a state follows in
\* which the flag is clear and the closure is painted for the camera and the
\* node position of that state.
C33_NoLostRepaint ==
    /\ [][\A c \in Slots :
             (Frame /\ Repaints(c))
             => LET p == updateTarget(closures[c])
                    e == closures[c].el
                IN  /\ closures[c].updatePending
                    /\ dom'[e].left = p.left /\ dom'[e].top = p.top
                    /\ dom'[e].width = p.width /\ dom'[e].height = p.height
                    /\ ~closures'[c].updatePending
                    /\ ~InQueue(rafQueue', c)
                    /\ lastPaint'[c] = [zoom |-> zoom, pan |-> pan,
                                        npos |-> nodePos[closures[c].node],
                                        touched |-> FALSE]]_vars
    /\ \A c \in Slots :
          (c \in cyListeners /\ closures[c].updatePending)
          ~> (/\ c \in cyListeners
              /\ ~closures[c].updatePending
              /\ lastPaint[c] = [zoom |-> zoom, pan |-> pan,
                                 npos |-> nodePos[closures[c].node],
                                 touched |-> FALSE])

\* The overlay was repainted at zoom 1/2 after a first notification, and a
\* later notification (the zoom back to 1) has queued a new repaint.
C33_Witness ==
    \E c \in Slots :
       /\ c \in cyListeners
       /\ lastPaint[c].zoom = <<1, 2>>
       /\ zoom = <<1, 1>>
       /\ closures[c].updatePending
       /\ rafQueue = <<c>>

\* C34 (resource balance): in every state the running poll timers, the
\* camera listeners, the node listeners, the size-change observers and the
\* removal watchers are each exactly those of the closures that the registry
\* holds, one per entry: their numbers equal the number of entries, no
\* subscription belongs to a closure without an entry and no entry lacks one.
C34_ResourceBalance ==
    LET live == MapValues(trackingMap)
    IN  /\ Cardinality(live) = Len(trackingMap)
        /\ intervals = live /\ Cardinality(intervals) = Len(trackingMap)
        /\ cyListeners = live /\ Cardinality(cyListeners) = Len(trackingMap)
        /\ nodeListeners = {<<closures[c].node, c>> : c \in live}
        /\ Cardinality(nodeListeners) = Len(trackingMap)
        /\ resizeObservers = live /\ Cardinality(resizeObservers) = Len(trackingMap)
        /\ mutationObservers = live /\ Cardinality(mutationObservers) = Len(trackingMap)

\* The removal of t1's overlay has been detected while t2 stays tracked, and
\* the one entry left holds the one timer.
C34_Witness ==
    /\ call.op = "removal"
    /\ call.id = "t1"
    /\ hasTracking("t2")
    /\ Len(trackingMap) = 1
    /\ Cardinality(intervals) = 1

\* C35 (teardown of one id leaves the others alone): a step that is unpin(id),
\* or the removal watcher of id's closure finding its overlay detached,
\* leaves every other tracked id with the same registry entry, the same
\* PositionState and pending flag, and the same camera listener, node
\* listener, poll timer, size-change observer and removal watcher.
C35_OthersUntouched ==
    [][\A id \in Ids, other \in Ids :
          ( /\ other # id
            /\ hasTracking(id)
            /\ hasTracking(other)
            /\ \/ Unpin(id)
               \/ /\ ~dom[closures[MapGet(trackingMap, id)].el].attached
                  /\ MutationCallback(MapGet(trackingMap, id)) )
          => LET c == MapGet(trackingMap, other)
             IN  /\ ~hasTracking(id)'
                 /\ hasTracking(other)'
                 /\ MapGet(trackingMap', other) = c
                 /\ closures'[c] = closures[c]
                 /\ c \in cyListeners'
                 /\ <<closures[c].node, c>> \in nodeListeners'
                 /\ c \in intervals'
                 /\ c \in resizeObservers'
                 /\ c \in mutationObservers'
                 /\ (c \in roPending') <=> (c \in roPending)
                 /\ (c \in moPending') <=> (c \in moPending)
                 /\ InQueue(rafQueue', c) <=> InQueue(rafQueue, c)
                 /\ dom'[closures[c].el] = dom[closures[c].el]]_vars

\* The removal of t1's overlay has just been detected and torn down while t2
\* is tracked with a repaint pending.
C35_Witness ==
    /\ call.op = "removal"
    /\ call.torn = <<"t1">>
    /\ hasTracking("t2")
    /\ closures[MapGet(trackingMap, "t2")].updatePending

\* C36 (no spurious teardown): when the removal watcher of a tracked closure
\* runs while the closure's overlay is attached, the id stays tracked by the
\* same closure, its PositionState is unchanged and its camera listener,
\* node listener, poll timer, size-change observer and removal watcher all
\* stay active.
C36_NoSpuriousTeardown ==
    [][\A c \in Slots :
          ( /\ c \in MapValues(trackingMap)
            /\ dom[closures[c].el].attached
            /\ MutationCallback(c) )
          => /\ hasTracking(closures[c].id)'
             /\ MapGet(trackingMap', closures[c].id) = c
             /\ trackingMap' = trackingMap
             /\ closures'[c] = closures[c]
             /\ c \in cyListeners'
             /\ <<closures[c].node, c>> \in nodeListeners'
             /\ c \in intervals'
             /\ c \in resizeObservers'
             /\ c \in mutationObservers'
             /\ c \notin moPending']_vars

\* Overlay e1 has been removed, which notified both watchers; the watcher of
\* t2, whose overlay e2 is attached, has run as the last step (no registry
\* call and no camera event since) and t2 is tracked; the watcher of t1 has
\* yet to run.
C36_Witness ==
    /\ ~dom["e1"].attached
    /\ dom["e2"].attached
    /\ hasTracking("t1")
    /\ hasTracking("t2")
    /\ closures[MapGet(trackingMap, "t2")].el = "e2"
    /\ moPending = {MapGet(trackingMap, "t1")}
    /\ MapGet(trackingMap, "t2") \in mutationObservers
    /\ call = NoCall
    /\ budget.camera = MaxCameraEvents

\* The variables that drag and resize detection write.
StoredZoomInvariant ==
    <<notify.userOffsetXZoomInvariant, notify.userOffsetYZoomInvariant,
      notify.baseWidthZoomInvariant, notify.baseHeightZoomInvariant>>

\* The step is a call of the movement handler.
MovementNotification ==
    /\ notify.listening
    /\ budget'.camera < budget.camera
    /\ notify'.last = "notification"

\* The step is one of the first InitializationFrames - 1 calls after the pin.
InitializationNotification ==
    MovementNotification /\ notify.frameCount + 1 < InitializationFrames

\* The handler's repaint has put the overlay where updatePosition puts it
\* for the camera of the new state.
RepaintedZoomInvariant ==
    LET cam == Camera(zoom', pan', nodePos'["n1"])
        p == getDefaultPositionZoomInvariant(notify', cam)
    IN  /\ dom'["e1"].left = p.x
        /\ dom'["e1"].top = p.y
        /\ dom'["e1"].width = scaledWidth(notify', cam)
        /\ dom'["e1"].height = scaledHeight(notify', cam)

C38_NoOverlayNoTracking ==
    /\ [](~notify.tracked => (~notify.listening /\ ~notify.observer /\ ~notify.timer))
    /\ []((notify.last = "pin" /\ ~dom["e1"].attached) => ~notify.tracked)
    /\ [][(ZoomInvariantPin /\ ~dom["e1"].attached)
          => /\ dom' = dom
             /\ ~notify'.tracked
             /\ ~notify'.listening /\ ~notify'.observer /\ ~notify'.timer
             /\ StoredZoomInvariant' = StoredZoomInvariant
             /\ notify'.frameCount = notify.frameCount
             /\ notify'.lastZoom = notify.lastZoom]_vars

\* A pin has just been attempted after a camera event, with no popover in
\* the document, and the id is not tracked.
C38_Witness ==
    /\ notify.last = "pin"
    /\ ~dom["e1"].attached
    /\ ~notify.tracked
    /\ budget.camera < MaxFrames

====
